---------------------------- MODULE Spec2Model ----------------------------
(***************************************************************************)
(* A model of the expense analytics engine of smartbudget:                 *)
(*   - backend/ml/forecasting.py   ExpenseForecaster (the shared singleton *)
(*     with its load / train / save / predict lifecycle),                  *)
(*   - backend/routes/ml_routes.py the /forecast route in front of it,     *)
(*   - backend/ml/anomaly_detection.py  AnomalyDetector,                   *)
(*   - backend/ml/insights.py      InsightsGenerator,                      *)
(*   - backend/models/expense_model.py, savings_model.py  Expense and      *)
(*     SavingsGoal,                                                        *)
(*   - backend/services/alert_service.py  AlertService.check_budget_alerts.*)
(*                                                                         *)
(* A list of expense records is modelled by what the code reads of it: the *)
(* number of rows per category label, the payment-type labels that occur,  *)
(* and whether the amounts are numbers (amounts_ok) or all NaN.            *)
(***************************************************************************)
EXTENDS Integers, Sequences, FiniteSets, TLC

(***************************************************************************)
(* Bounds of the model.                                                    *)
(***************************************************************************)
\* train_model calls that pass the 30-record guard in one behaviour (the
\* constructor's bootstrap training included)
MaxTrains == 2
\* the regressor's outputs run over -MaxRaw..MaxRaw hundredths of a cent
MaxRaw == 4000
\* record lists of up to MaxRows rows are enumerated for the detector
MaxRows == 11
\* histories of up to MaxDays days are enumerated for the frequency detector
MaxDays == 11
\* record lists of up to MaxRecords records are enumerated for the budget status
MaxRecords == 2

(***************************************************************************)
(* Program constants.                                                      *)
(***************************************************************************)
\* forecasting.py:114  if len(expenses_data) < 30
MinTrainRecords == 30
\* ml_routes.py:50  if len(result['expenses']) < 30  (reported as required_count)
RouteRequiredCount == 30
\* forecasting.py:212  periods=30
ForecastDays == 30
\* forecasting.py:279  if len(category_df) < 10
MinCategoryRecords == 10
\* anomaly_detection.py:29  if len(expenses_data) < 10
MinAmountRecords == 10
\* anomaly_detection.py:73  if len(historical_df) < 10
MinHistoricalRows == 10
\* anomaly_detection.py:155  days_in_month = 30  # Simplified
days_in_month == 30

\* forecasting.py:127-131
feature_cols ==
    << "day_of_week", "day_of_month", "month", "is_weekend", "week_of_year",
       "rolling_mean_7d", "rolling_std_7d", "rolling_mean_30d",
       "lag_1", "lag_7", "category_encoded", "payment_type_encoded" >>

\* forecasting.py:94  for col in ['category', 'payment_type']
EncodedCols == << "category", "payment_type" >>

\* forecasting.py:169-170
DefaultCategories ==
    {"Food", "Transport", "Shopping", "Bills", "Entertainment", "Healthcare", "Other"}
DefaultPaymentTypes == {"Credit Card", "Debit Card", "Cash", "UPI", "Bank Transfer"}

(***************************************************************************)
(* Record lists.                                                           *)
(***************************************************************************)
RECURSIVE SumRows(_, _)
SumRows(rows, dom) ==
    IF dom = {} THEN 0
    ELSE LET c == CHOOSE x \in dom : TRUE
         IN  rows[c] + SumRows(rows, dom \ {c})

\* len(expenses_data)
NumRows(recs) == SumRows(recs.rows, DOMAIN recs.rows)

\* df[col].astype(str): the labels occurring in a column
Labels(recs, col) ==
    IF col = "category"
    THEN {c \in DOMAIN recs.rows : recs.rows[c] > 0}
    ELSE IF NumRows(recs) = 0 THEN {} ELSE recs.pays

\* len(df[df['category'] == category])
CategoryCount(recs, category) ==
    IF category \in DOMAIN recs.rows THEN recs.rows[category] ELSE 0

\* The record lists a caller passes: "Food" and "Cash" are labels of the
\* bootstrap data, "Travel" and "Crypto" are not.
UserCategories == {"Food", "Travel"}
Rows(food, travel) == [c \in UserCategories |-> IF c = "Food" THEN food ELSE travel]
UserLists ==
    \* 0, 9, 10, 20, 29 and 30 rows, paid in cash
    { [rows |-> Rows(f, t), pays |-> {"Cash"}, amounts_ok |-> TRUE]
        : f \in {0, 20}, t \in {0, 9, 10} }
    \cup
    \* 30 rows of "Food" with an unknown payment type, and 30 rows without amounts
    { [rows |-> Rows(30, 0), pays |-> {"Crypto"}, amounts_ok |-> TRUE],
      [rows |-> Rows(30, 0), pays |-> {"Cash"}, amounts_ok |-> FALSE] }

\* forecasting.py:166-182  the synthetic data of train_default_model: a seeded
\* draw of 0..3 expenses a day over 333 days, about 500 rows over all labels
SyntheticData ==
    [ rows |-> [c \in DefaultCategories |-> 70],
      pays |-> DefaultPaymentTypes,
      amounts_ok |-> TRUE ]

(***************************************************************************)
(* The forecaster's objects.  by is the call that made the object:        *)
(* <<"train", k>> the k-th train_model call that passed its guard,         *)
(* <<"predict", 0>> a predict call, <<"file", 0>> an artifact that was on  *)
(* disk at the start.                                                      *)
(***************************************************************************)
Nobody == << "none", 0 >>
OnDisk == << "file", 0 >>

\* self.model = None
NoModel == [state |-> "none", by |-> Nobody]
\* GradientBoostingRegressor(...) before and after fit
Regressor(state, by) == [state |-> state, by |-> by]

\* col not in self.label_encoders
NoEncoder == [state |-> "absent", classes |-> {}, by |-> Nobody]
\* self.label_encoders = {}
NoEncoders == [c \in {"category", "payment_type"} |-> NoEncoder]

\* self.feature_names = None
NoNames == [cols |-> << >>, by |-> Nobody]

\* The file at model_path
NoFile == [status |-> "missing", keys |-> {}, model |-> NoModel,
           label_encoders |-> NoEncoders, feature_names |-> NoNames]
\* a file pickle.load cannot read (truncated by open(..., 'wb'), or corrupt)
BadFile == [NoFile EXCEPT !.status = "unreadable"]
Bundle(keys, m, e, f) ==
    [status |-> "dict", keys |-> keys, model |-> m,
     label_encoders |-> e, feature_names |-> f]

BundleKeys == {"model", "label_encoders", "feature_names"}

\* A bundle an earlier run of the program saved after training on the
\* bootstrap data
SavedBundle(keys) ==
    Bundle(keys,
           Regressor("fitted", OnDisk),
           [c \in {"category", "payment_type"} |->
               [state |-> "fitted",
                classes |-> IF c = "category" THEN DefaultCategories
                            ELSE DefaultPaymentTypes,
                by |-> OnDisk]],
           [cols |-> feature_cols, by |-> OnDisk])

\* What may be at model_path when the process starts
InitialArtifacts ==
    {NoFile, BadFile} \cup
    {SavedBundle(BundleKeys \ drop) : drop \in {{}, {"model"}, {"label_encoders"}, {"feature_names"}}}

\* Return values are the dictionaries the code returns; a raised exception is
\* [raised |-> <exception>]; NoResult before the first return.
NoResult == [none |-> TRUE]
Raised(exc) == [raised |-> exc]

VARIABLES
    model,            \* self.model
    label_encoders,   \* self.label_encoders
    feature_names,    \* self.feature_names
    artifact,         \* the file at self.model_path
    boot,             \* where the constructor is: "load", "bootstrap", "ready"
    tr,               \* the thread in train_model
    pr,               \* the thread in a prediction request
    nTrains,          \* train_model calls that passed the guard so far
    \* one day of the forecast loop (forecasting.py:218-245)
    day_no,           \* the day of the loop, 0 before the first
    raw_amount,       \* self.model.predict(X_pred)[0], in 1/100 of a cent
    prediction,       \* the dictionary appended for that day, amounts in cents
    \* AnomalyDetector (anomaly_detection.py)
    threshold_sigma,  \* self.threshold_sigma, in halves (5 is 2.5)
    expenses_data,    \* the amounts of the record list, row by row
    anomalies,        \* what detect_amount_anomalies returned for it
    \* the stateless analytics calls (anomaly_detection.py, insights.py) and
    \* the routes in front of them (ml_routes.py)
    now,              \* the wall clock, as a month number
    call,             \* the operation called and its arguments
    results,          \* what the calls made with these arguments returned, in order
    \* the documents (models/) and the services over them (services/)
    expense,          \* an Expense object (models/expense_model.py)
    goal,             \* a SavingsGoal object (models/savings_model.py)
    alerts,           \* the alerts collection (services/alert_service.py)
    checker           \* the requests in check_budget_alerts, one per thread

fvars == << model, label_encoders, feature_names, artifact, boot, tr, pr,
            nTrains >>
bvars == << day_no, raw_amount, prediction >>
avars == << threshold_sigma, expenses_data, anomalies >>
cvars == << now, call, results >>
mvars == << expense, goal, alerts, checker >>
vars == << fvars, bvars, avars, cvars, mvars >>

\* the variables of the other components
notForecaster == << bvars, avars, cvars, mvars >>
notBand == << fvars, avars, cvars, mvars >>
notDetector == << fvars, bvars, cvars, mvars >>
notCall == << fvars, bvars, mvars >>
notExpense == << goal, alerts, checker >>
notGoal == << expense, alerts, checker >>
notAlerts == << expense, goal >>


(***************************************************************************)
(* Threads.                                                                *)
(***************************************************************************)
EmptyList == [rows |-> [c \in UserCategories |-> 0], pays |-> {"Cash"}, amounts_ok |-> TRUE]

\* pc is "idle", a place in the call, or "returned" (the caller holds the
\* result, until it drops it and the thread is idle again)
TrainIdle == [pc |-> "idle", recs |-> EmptyList, id |-> 0, col |-> 1,
              result |-> NoResult, caller |-> "none"]
\* follows: how the train_model call on the same records that returned just
\* before this request was entered ended ("none" when there is no such call)
PredictIdle == [pc |-> "idle", op |-> "none", recs |-> EmptyList, via |-> "none",
                category |-> "none",
                col |-> 1, day |-> 0, result |-> NoResult, response |-> NoResult,
                follows |-> "none"]

\* how a call ended
Outcome(result) ==
    IF "raised" \in DOMAIN result THEN "raised"
    ELSE IF "success" \in DOMAIN result /\ result.success THEN "success"
    ELSE "failure"

(***************************************************************************)
(* ExpenseForecaster.__init__ and load_model  (forecasting.py:19-41)       *)
(***************************************************************************)
\* forecasting.py:21-24
InitForecaster ==
    /\ model = NoModel
    /\ label_encoders = NoEncoders
    /\ feature_names = NoNames
    /\ artifact \in InitialArtifacts
    /\ boot = "load"
    /\ tr = TrainIdle
    /\ pr = PredictIdle
    /\ nTrains = 0

\* forecasting.py:30-38  the three reads of saved_data run in order inside one
\* try; the first one that fails ends them and line 38 resets the model only
KeysRead(a) ==
    IF a.status # "dict" THEN {}
    ELSE IF "model" \notin a.keys THEN {}
    ELSE IF "label_encoders" \notin a.keys THEN {"model"}
    ELSE IF "feature_names" \notin a.keys THEN {"model", "label_encoders"}
    ELSE BundleKeys
LoadedModel(a) == IF KeysRead(a) = BundleKeys THEN a.model ELSE NoModel
LoadedEncoders(a, cur) ==
    IF "label_encoders" \in KeysRead(a) THEN a.label_encoders ELSE cur
LoadedNames(a, cur) ==
    IF "feature_names" \in KeysRead(a) THEN a.feature_names ELSE cur

\* forecasting.py:28-38  the artifact exists: load it, or fall back
load_model ==
    /\ boot = "load"
    /\ artifact.status # "missing"
    /\ model' = LoadedModel(artifact)
    /\ label_encoders' = LoadedEncoders(artifact, label_encoders)
    /\ feature_names' = LoadedNames(artifact, feature_names)
    /\ boot' = "ready"
    /\ UNCHANGED << artifact, tr, pr, nTrains >>
    /\ UNCHANGED notForecaster

(***************************************************************************)
(* prepare_features  (forecasting.py:93-100), one column at a time         *)
(***************************************************************************)
\* line 97: a new, unfitted LabelEncoder is put into the dictionary
EncoderInserted(encs, col, by) ==
    [encs EXCEPT ![col] = [state |-> "unfitted", classes |-> {}, by |-> by]]
\* line 98: fit_transform learns the labels of this call's records
EncoderFitted(encs, col, labels) ==
    [encs EXCEPT ![col] = [@ EXCEPT !.state = "fitted", !.classes = labels]]
\* line 100: LabelEncoder.transform raises on a label it was not fitted on
\* (ValueError) and on an encoder that is not fitted (NotFittedError)
TransformRaises(enc, labels) ==
    IF enc.state # "fitted" THEN "NotFittedError"
    ELSE IF ~(labels \subseteq enc.classes) THEN "ValueError"
    ELSE "no"

(***************************************************************************)
(* save_model  (forecasting.py:43-55)                                      *)
(***************************************************************************)
\* lines 48-52: what pickle.dump writes
Dumped == Bundle(BundleKeys, model, label_encoders, feature_names)

(***************************************************************************)
(* train_model  (forecasting.py:104-161)                                   *)
(***************************************************************************)
\* lines 115-118
TrainTooFew == [success |-> FALSE, message |-> "Need at least 30 expenses to train model"]
\* lines 156-161
TrainReport(recs) == [success |-> TRUE, n_samples |-> NumRows(recs)]

\* lines 114-118: the guard
TrainRejects(recs) == NumRows(recs) < MinTrainRecords

\* train_model returns or raises
TrainEnds(result) ==
    /\ tr' = [tr EXCEPT !.pc = "returned", !.result = result]
    /\ boot' = IF tr.caller = "ctor" THEN "ready" ELSE boot

\* the caller drops the result
TrainReturned ==
    /\ tr.pc = "returned"
    /\ tr' = TrainIdle
    /\ UNCHANGED << model, label_encoders, feature_names, artifact, boot, pr, nTrains >>
    /\ UNCHANGED notForecaster

\* the guard placed after line 140: the rejected call has put its regressor
\* into the slot
TrainRejectedAfterAssign(recs) ==
    /\ boot = "ready"
    /\ tr.pc = "idle"
    /\ TrainRejects(recs)
    /\ tr' = [TrainIdle EXCEPT !.pc = "returned", !.recs = recs,
                               !.result = TrainTooFew, !.caller = "client"]
    /\ model' = Regressor("unfitted", << "train", 0 >>)
    /\ UNCHANGED << label_encoders, feature_names, artifact, boot, pr, nTrains >>
    /\ UNCHANGED notForecaster
\* a call that is rejected by the guard
TrainRejected(recs) ==
    /\ boot = "ready"
    /\ tr.pc = "idle"
    /\ TrainRejects(recs)
    /\ tr' = [TrainIdle EXCEPT !.pc = "returned", !.recs = recs,
                               !.result = TrainTooFew, !.caller = "client"]
    /\ UNCHANGED << model, label_encoders, feature_names, artifact, boot, pr, nTrains >>
    /\ UNCHANGED notForecaster

\* a call that passes the guard (lines 114-121)
TrainStarts(recs, caller) ==
    /\ tr.pc = "idle"
    /\ nTrains < MaxTrains
    /\ ~TrainRejects(recs)
    /\ nTrains' = nTrains + 1
    /\ tr' = [pc |-> "encode", recs |-> recs, id |-> nTrains + 1, col |-> 1,
              result |-> NoResult, caller |-> caller]

train_model_call(recs) ==
    /\ boot = "ready"
    /\ TrainStarts(recs, "client")
    /\ UNCHANGED << model, label_encoders, feature_names, artifact, boot, pr >>
    /\ UNCHANGED notForecaster

\* forecasting.py:39-41,163-184  no artifact: train on the synthetic data
train_default_model ==
    /\ boot = "load"
    /\ artifact.status = "missing"
    /\ TrainStarts(SyntheticData, "ctor")
    /\ boot' = "bootstrap"
    /\ UNCHANGED << model, label_encoders, feature_names, artifact, pr >>
    /\ UNCHANGED notForecaster

\* lines 95-100 for column tr.col: look the encoder up
TrainEncode ==
    /\ tr.pc = "encode"
    /\ LET col == EncodedCols[tr.col]
           labels == Labels(tr.recs, col)
       IN  IF label_encoders[col].state = "absent"
           THEN /\ label_encoders' = EncoderInserted(label_encoders, col, << "train", tr.id >>)
                /\ tr' = [tr EXCEPT !.pc = "fit_encoder"]
                /\ UNCHANGED boot
           ELSE IF TransformRaises(label_encoders[col], labels) # "no"
           THEN /\ TrainEnds(Raised(TransformRaises(label_encoders[col], labels)))
                /\ UNCHANGED label_encoders
           ELSE /\ tr' = IF tr.col = Len(EncodedCols)
                         THEN [tr EXCEPT !.pc = "assign", !.col = 1]
                         ELSE [tr EXCEPT !.col = @ + 1]
                /\ UNCHANGED << label_encoders, boot >>
    /\ UNCHANGED << model, feature_names, artifact, pr, nTrains >>
    /\ UNCHANGED notForecaster

\* line 98, in whichever call is there: train_model (line 124) or
\* predict_next_month (line 204)
FitEncoder(caller) ==
    LET th == IF caller = "train" THEN tr ELSE pr
        col == EncodedCols[th.col]
        last == th.col = Len(EncodedCols)
    IN  /\ th.pc = "fit_encoder"
        /\ label_encoders' = EncoderFitted(label_encoders, col, Labels(th.recs, col))
        /\ IF caller = "train"
           THEN /\ tr' = [tr EXCEPT !.pc = IF last THEN "assign" ELSE "encode",
                                    !.col = IF last THEN 1 ELSE @ + 1]
                /\ UNCHANGED pr
           ELSE /\ pr' = [pr EXCEPT !.pc = IF last THEN "day" ELSE "encode",
                                    !.col = IF last THEN 1 ELSE @ + 1,
                                    !.day = IF last THEN 1 ELSE 0]
                /\ UNCHANGED tr
        /\ UNCHANGED << model, feature_names, artifact, boot, nTrains >>
        /\ UNCHANGED notForecaster

\* lines 140-145: the new regressor goes into the shared slot before it is fitted
AssignedModel(id) == Regressor("unfitted", << "train", id >>)
TrainAssign ==
    /\ tr.pc = "assign"
    /\ model' = AssignedModel(tr.id)
    /\ tr' = [tr EXCEPT !.pc = "fit"]
    /\ UNCHANGED << label_encoders, feature_names, artifact, boot, pr, nTrains >>
    /\ UNCHANGED notForecaster

\* lines 134-147: fit raises ValueError when dropna left no row (all amounts NaN)
TrainFit ==
    /\ tr.pc = "fit"
    /\ IF tr.recs.amounts_ok
       THEN /\ model' = [model EXCEPT !.state = "fitted"]
            /\ tr' = [tr EXCEPT !.pc = "names"]
            /\ UNCHANGED boot
       ELSE /\ TrainEnds(Raised("ValueError"))
            /\ UNCHANGED model
    /\ UNCHANGED << label_encoders, feature_names, artifact, pr, nTrains >>
    /\ UNCHANGED notForecaster

\* line 148
TrainNames ==
    /\ tr.pc = "names"
    /\ feature_names' = [cols |-> feature_cols, by |-> << "train", tr.id >>]
    /\ tr' = [tr EXCEPT !.pc = "save"]
    /\ UNCHANGED << model, label_encoders, artifact, boot, pr, nTrains >>
    /\ UNCHANGED notForecaster

\* lines 46-47: open(..., 'wb') truncates the file
SaveOpens ==
    /\ tr.pc = "save"
    /\ artifact' = BadFile
    /\ tr' = [tr EXCEPT !.pc = "dump"]
    /\ UNCHANGED << model, label_encoders, feature_names, boot, pr, nTrains >>
    /\ UNCHANGED notForecaster

\* lines 48-53: pickle.dump writes the bundle; train_model returns (156-161)
SaveDumps ==
    /\ tr.pc = "dump"
    /\ artifact' = Dumped
    /\ TrainEnds(TrainReport(tr.recs))
    /\ UNCHANGED << model, label_encoders, feature_names, pr, nTrains >>
    /\ UNCHANGED notForecaster

\* lines 54-55: makedirs, open or dump raised; the exception is printed and
\* dropped, and train_model returns its report (156-161)
SaveFails ==
    /\ tr.pc \in {"save", "dump"}
    /\ TrainEnds(TrainReport(tr.recs))
    /\ UNCHANGED << model, label_encoders, feature_names, artifact, pr, nTrains >>
    /\ UNCHANGED notForecaster

(***************************************************************************)
(* get_forecast  (ml_routes.py:22-68)  and                                 *)
(* predict_next_month  (forecasting.py:186-261)                            *)
(***************************************************************************)
\* a dictionary returned through jsonify(...), <status>
WithStatus(r, code) ==
    [k \in DOMAIN r \cup {"status"} |-> IF k = "status" THEN code ELSE r[k]]

\* ml_routes.py:43-47
FetchFailed == [success |-> FALSE, error |-> "Failed to get expenses", status |-> 400]
\* ml_routes.py:51-57
RouteTooFew(recs) ==
    [success |-> FALSE, error |-> "Insufficient data for prediction",
     message |-> "At least 30 expenses required for forecasting",
     current_count |-> NumRows(recs), required_count |-> RouteRequiredCount,
     status |-> 400]
\* ml_routes.py:64-68
RouteFailed == [success |-> FALSE, error |-> "Forecast failed", status |-> 500]
\* ml_routes.py:50
RouteRejects(recs) == NumRows(recs) < RouteRequiredCount

\* forecasting.py:197-200
ModelNotTrained == [success |-> FALSE, message |-> "Model not trained"]
\* forecasting.py:250-261
ForecastReport == [success |-> TRUE, predictions |-> ForecastDays]

\* ml_routes.py:36-57: the request ends in the route
get_forecast_rejected(recs, fetched) ==
    /\ boot = "ready"
    /\ pr.pc = "idle"
    /\ ~fetched \/ RouteRejects(recs)
    /\ pr' = [PredictIdle EXCEPT !.pc = "returned", !.op = "get_forecast",
                                 !.recs = recs, !.via = "route",
                                 !.response = IF ~fetched THEN FetchFailed
                                              ELSE RouteTooFew(recs)]
    /\ UNCHANGED << model, label_encoders, feature_names, artifact, boot, tr,
                    nTrains >>
    /\ UNCHANGED notForecaster

\* predict_next_month is entered, from the route (ml_routes.py:60) or directly
\* (train_model.py:94)
predict_call(recs, via) ==
    /\ boot = "ready"
    /\ pr.pc = "idle"
    /\ via = "route" => ~RouteRejects(recs)
    /\ pr' = [PredictIdle EXCEPT !.pc = "check", !.op = "predict_next_month",
                                 !.recs = recs, !.via = via,
                                 !.follows = IF tr.pc = "returned" /\ tr.recs = recs
                                             THEN Outcome(tr.result) ELSE "none"]
    /\ UNCHANGED << model, label_encoders, feature_names, artifact, boot, tr,
                    nTrains >>
    /\ UNCHANGED notForecaster

\* predict_next_month returns or raises; the route answers 200 with whatever
\* was returned (line 62) and 500 for an exception (lines 64-68)
PredictEnds(result) ==
    /\ pr' = [pr EXCEPT !.pc = "returned", !.result = result,
                        !.response = IF pr.via # "route" THEN NoResult
                                     ELSE IF "raised" \in DOMAIN result THEN RouteFailed
                                     ELSE WithStatus(result, 200)]

\* the caller drops the result
PredictReturned ==
    /\ pr.pc = "returned"
    /\ pr' = PredictIdle
    /\ UNCHANGED << model, label_encoders, feature_names, artifact, boot, tr, nTrains >>
    /\ UNCHANGED notForecaster

\* forecasting.py:196  `not self.model`: None gives the failure; an unfitted
\* ensemble has no estimators_, so its __len__ (which bool() calls) raises
\* AttributeError; a fitted one is true
PredictCheck ==
    /\ pr.pc = "check"
    /\ IF model.state = "none"
       THEN PredictEnds(ModelNotTrained)
       ELSE IF model.state = "unfitted"
       THEN PredictEnds(Raised("AttributeError"))
       ELSE pr' = [pr EXCEPT !.pc = "date"]
    /\ UNCHANGED << model, label_encoders, feature_names, artifact, boot, tr, nTrains >>
    /\ UNCHANGED notForecaster

\* forecasting.py:203-204,72  an empty list gives a frame without columns, and
\* df['date'] raises KeyError
PredictDate ==
    /\ pr.pc = "date"
    /\ IF NumRows(pr.recs) = 0
       THEN PredictEnds(Raised("KeyError"))
       ELSE pr' = [pr EXCEPT !.pc = "encode", !.col = 1]
    /\ UNCHANGED << model, label_encoders, feature_names, artifact, boot, tr, nTrains >>
    /\ UNCHANGED notForecaster

\* line 96 without its test: every request puts a new encoder in
PredictEncodeAnew ==
    /\ pr.pc = "encode"
    /\ label_encoders' = EncoderInserted(label_encoders, EncodedCols[pr.col], << "predict", 0 >>)
    /\ pr' = [pr EXCEPT !.pc = "fit_encoder"]
    /\ UNCHANGED << model, feature_names, artifact, boot, tr, nTrains >>
    /\ UNCHANGED notForecaster
\* forecasting.py:95-100, called from line 204
PredictEncode ==
    /\ pr.pc = "encode"
    /\ LET col == EncodedCols[pr.col]
           labels == Labels(pr.recs, col)
           enc == label_encoders[col]
       IN  IF enc.state = "absent"
           THEN /\ label_encoders' = EncoderInserted(label_encoders, col, << "predict", 0 >>)
                /\ pr' = [pr EXCEPT !.pc = "fit_encoder"]
           ELSE IF TransformRaises(enc, labels) # "no"
           THEN /\ PredictEnds(Raised(TransformRaises(enc, labels)))
                /\ UNCHANGED label_encoders
           ELSE /\ pr' = [pr EXCEPT !.pc = IF pr.col = Len(EncodedCols) THEN "day"
                                           ELSE "encode",
                                    !.col = IF pr.col = Len(EncodedCols) THEN 1 ELSE @ + 1,
                                    !.day = IF pr.col = Len(EncodedCols) THEN 1 ELSE 0]
                /\ UNCHANGED label_encoders
    /\ UNCHANGED << model, feature_names, artifact, boot, tr, nTrains >>
    /\ UNCHANGED notForecaster

\* forecasting.py:235  pd.DataFrame([features])[self.feature_names]: None is no
\* column (KeyError).  forecasting.py:238  self.model.predict(X_pred): None has
\* no predict (AttributeError), an unfitted regressor raises NotFittedError,
\* NaN features (all amounts NaN) raise ValueError
PredictRaises(names, m, recs) ==
    IF names.cols = << >> THEN "KeyError"
    ELSE IF m.state = "none" THEN "AttributeError"
    ELSE IF m.state = "unfitted" THEN "NotFittedError"
    ELSE IF ~recs.amounts_ok THEN "ValueError"
    ELSE "no"

\* forecasting.py:218-245 for day pr.day, and lines 247-261 after the last day.
\* The reads of lines 235 and 238 are one step: self.feature_names, once set,
\* is never unset while a request runs, so a train_model step between the two
\* reads has the effect it has before both.
PredictDay ==
    /\ pr.pc = "day"
    /\ IF PredictRaises(feature_names, model, pr.recs) # "no"
       THEN PredictEnds(Raised(PredictRaises(feature_names, model, pr.recs)))
       ELSE IF pr.day = ForecastDays
       THEN PredictEnds(ForecastReport)
       ELSE pr' = [pr EXCEPT !.day = @ + 1]
    /\ UNCHANGED << model, label_encoders, feature_names, artifact, boot, tr, nTrains >>
    /\ UNCHANGED notForecaster

(***************************************************************************)
(* predict_category_spending  (forecasting.py:263-304)                     *)
(* The numbers of the report (totals, band) are not modelled.              *)
(***************************************************************************)
predict_category_spending(recs, category) ==
    IF NumRows(recs) = 0
    THEN Raised("KeyError")       \* line 277: df['category'] on a frame without columns
    ELSE IF CategoryCount(recs, category) < MinCategoryRecords
    THEN [success |-> FALSE, message |-> << "Not enough data for category: ", category >>]
    ELSE [success |-> TRUE, category |-> category]

predict_category_call(recs, category) ==
    /\ boot = "ready"
    /\ pr.pc = "idle"
    /\ pr' = [PredictIdle EXCEPT !.pc = "returned", !.op = "predict_category",
                                 !.recs = recs, !.via = "direct",
                                 !.category = category,
                                 !.result = predict_category_spending(recs, category)]
    /\ UNCHANGED << model, label_encoders, feature_names, artifact, boot, tr, nTrains >>
    /\ UNCHANGED notForecaster

(***************************************************************************)
(* The route get_category_forecast_route  (ml_routes.py:70-126).  It calls *)
(* get_category_forecast(result['expenses'], category, days) (line 112);   *)
(* get_category_forecast (forecasting.py:314-316) takes two arguments, so  *)
(* the call raises TypeError before predict_category_spending is entered,  *)
(* and line 122 answers 500.                                               *)
(***************************************************************************)
\* ml_routes.py:93-98
InvalidDays == [success |-> FALSE, error |-> "Invalid days parameter", status |-> 400]
\* ml_routes.py:122-126
CategoryForecastFailed ==
    [success |-> FALSE, error |-> "Category forecast failed", status |-> 500]
\* forecasting.py:314-316 as line 112 of the route calls it
get_category_forecast(recs, category, days) == Raised("TypeError")

get_category_forecast_route(recs, category, days, fetched) ==
    /\ boot = "ready"
    /\ pr.pc = "idle"
    /\ pr' = [PredictIdle EXCEPT
                !.pc = "returned", !.op = "get_category_forecast_route",
                !.recs = recs, !.via = "route", !.category = category,
                !.response =
                    IF days < 1 \/ days > 365 THEN InvalidDays
                    ELSE IF ~fetched THEN FetchFailed
                    ELSE IF "raised" \in DOMAIN get_category_forecast(recs, category, days)
                    THEN CategoryForecastFailed
                    ELSE IF get_category_forecast(recs, category, days).success
                    THEN WithStatus(get_category_forecast(recs, category, days), 200)
                    ELSE [success |-> FALSE,
                          error |-> get_category_forecast(recs, category, days).message,
                          status |-> 400]]
    /\ UNCHANGED << model, label_encoders, feature_names, artifact, boot, tr, nTrains >>
    /\ UNCHANGED notForecaster

(***************************************************************************)
(* A new process: ExpenseForecaster() is constructed again                 *)
(* (forecasting.py:307, train_model.py:70) over the artifact on disk.      *)
(***************************************************************************)
Restart ==
    /\ boot = "ready"
    /\ tr.pc = "idle"
    /\ pr.pc = "idle"
    /\ model' = NoModel
    /\ label_encoders' = NoEncoders
    /\ feature_names' = NoNames
    /\ boot' = "load"
    /\ tr' = TrainIdle
    /\ pr' = PredictIdle
    /\ UNCHANGED << artifact, nTrains >>
    /\ UNCHANGED notForecaster

(***************************************************************************)
(* The forecaster's specification.                                         *)
(***************************************************************************)
\* the other components at rest
BandAtRest == day_no = 0 /\ raw_amount = 0 /\ prediction = NoResult
NotScanned == [done |-> FALSE, results |-> << >>]
DetectorAtRest == threshold_sigma = 5 /\ expenses_data = << >> /\ anomalies = NotScanned
NoCall == [op |-> "none"]
CallAtRest == now = 0 /\ call = NoCall /\ results = << >>
NoDocument == [none |-> TRUE]
ExpenseAtRest == expense = NoDocument
GoalAtRest == goal = NoDocument
\* the alerts collection holds budget warnings: how many documents there are
\* of each user, category and day of creation (days are clock readings)
Threads == {1, 2}
AlertUsers == {"u1", "u2"}
AlertCategories == {"Food", "Transport"}
AlertDocs == [user_id : AlertUsers, alert_type : {"budget_warning"},
              category : AlertCategories, created_at : 0..3]
NoAlerts == [d \in AlertDocs |-> 0]
CheckerIdle == [pc |-> "idle", user_id |-> "none", category |-> "none", created |-> 0]
AlertsAtRest == alerts = NoAlerts /\ checker = [t \in Threads |-> CheckerIdle]
ModelsAtRest == ExpenseAtRest /\ GoalAtRest /\ AlertsAtRest
ForecasterAtRest ==
    /\ model = NoModel
    /\ label_encoders = NoEncoders
    /\ feature_names = NoNames
    /\ artifact = NoFile
    /\ boot = "load"
    /\ tr = TrainIdle
    /\ pr = PredictIdle
    /\ nTrains = 0

Init == InitForecaster /\ BandAtRest /\ DetectorAtRest /\ CallAtRest /\ ModelsAtRest

Next ==
    \/ load_model
    \/ train_default_model
    \/ \E recs \in UserLists : TrainRejected(recs)
    \/ \E recs \in UserLists : train_model_call(recs)
    \/ TrainEncode
    \/ \E caller \in {"train", "predict"} : FitEncoder(caller)
    \/ TrainAssign
    \/ TrainFit
    \/ TrainNames
    \/ SaveOpens
    \/ SaveDumps
    \/ SaveFails
    \/ TrainReturned
    \/ \E recs \in UserLists, fetched \in BOOLEAN : get_forecast_rejected(recs, fetched)
    \/ \E recs \in UserLists, via \in {"route", "direct"} : predict_call(recs, via)
    \/ PredictCheck
    \/ PredictDate
    \/ PredictEncode
    \/ PredictDay
    \/ PredictReturned
    \/ \E recs \in UserLists, category \in UserCategories : predict_category_call(recs, category)
    \/ \E recs \in UserLists, category \in UserCategories, days \in {0, 30, 366},
          fetched \in BOOLEAN : get_category_forecast_route(recs, category, days, fetched)
    \/ Restart

Spec == Init /\ [][Next]_vars

(***************************************************************************)
(* Properties of the forecaster.                                           *)
(***************************************************************************)
TrainRunning == tr.pc \notin {"idle", "returned"}
TrainSucceeded == tr.pc = "returned" /\ Outcome(tr.result) = "success"
PredictReturnedFrom(op) == pr.pc = "returned" /\ pr.op = op
\* predict_next_month is about to read self.model, an encoder or self.feature_names
PredictReading == pr.op = "predict_next_month" /\ pr.pc \in {"check", "encode", "day"}

\* no model: the state __init__ sets up
NoModelState == model = NoModel /\ label_encoders = NoEncoders /\ feature_names = NoNames
\* a usable triple
CompleteTriple ==
    /\ model.state = "fitted"
    /\ \A col \in DOMAIN label_encoders : label_encoders[col].state = "fitted"
    /\ feature_names.cols = feature_cols
\* the three parts were made by the same call (or loaded from the same file)
SameOrigin ==
    /\ \A col \in DOMAIN label_encoders : label_encoders[col].by = model.by
    /\ feature_names.by = model.by

\* C1: while train_model runs, a concurrent predict_next_month never reads an
\* unfitted regressor, nor a fitted model next to encoders or feature columns
\* of another origin: the triple it reads is the whole old or the whole new one.
C1_PredictSeesWholeTriple ==
    (TrainRunning /\ PredictReading) =>
        /\ model.state # "unfitted"
        /\ model.state = "fitted" => SameOrigin

\* C2: when train_model returns success, the regressor, both encoders and the
\* feature-column list were all made by this call.
C2_TrainRebuildsTriple ==
    TrainSucceeded =>
        /\ model = Regressor("fitted", << "train", tr.id >>)
        /\ \A col \in DOMAIN label_encoders :
              label_encoders[col].by = << "train", tr.id >>
        /\ feature_names.by = << "train", tr.id >>

\* C3: a predict_next_month call entered right after a train_model call on the
\* same records returned (however that call ended) never returns the
\* model-not-trained failure.
C3_TrainThenPredict ==
    (PredictReturnedFrom("predict_next_month") /\ pr.follows # "none")
        => pr.result # ModelNotTrained

\* an insufficient-data failure that carries required_count == 30
InsufficientData(result) ==
    /\ Outcome(result) = "failure"
    /\ "required_count" \in DOMAIN result
    /\ result.required_count = 30

\* C4: train and forecast with 29 records return an insufficient-data failure
\* carrying required_count == 30; with 30 records they pass the guard.
C4_GuardAt30 ==
    /\ (tr.pc = "returned" /\ NumRows(tr.recs) = 29) => InsufficientData(tr.result)
    /\ (PredictReturnedFrom("get_forecast") /\ NumRows(pr.recs) = 29
          /\ pr.response # FetchFailed) => InsufficientData(pr.response)
    /\ (tr.pc = "returned" /\ NumRows(tr.recs) = 30) => tr.result # TrainTooFew
    /\ (pr.via = "route" /\ pr.pc = "returned" /\ NumRows(pr.recs) = 30
          /\ pr.response # FetchFailed) => pr.response # RouteTooFew(pr.recs)

\* C5: too few records (an empty list, or too few of the category asked for)
\* and a missing model make train, predict_next_month and predict_category
\* return a failure value; they do not raise.
C5_ExpectedFailuresAreValues ==
    /\ (tr.pc = "returned" /\ NumRows(tr.recs) < MinTrainRecords)
          => Outcome(tr.result) = "failure"
    /\ (PredictReturnedFrom("predict_category")
          /\ CategoryCount(pr.recs, pr.category) < MinCategoryRecords)
          => Outcome(pr.result) = "failure"
    /\ (PredictReturnedFrom("predict_next_month")
          /\ (NumRows(pr.recs) = 0 \/ model.state = "none"))
          => Outcome(pr.result) = "failure"

\* C6: the constructor does not raise and ends in the no-model state or with a
\* complete triple, whatever the artifact is.
C6_ConstructionEndsWhole ==
    [][ (boot # "ready" /\ boot' = "ready") =>
            /\ (NoModelState \/ CompleteTriple)'
            /\ Outcome(tr'.result) # "raised" ]_vars

\* C7: whenever train_model returns success, the artifact holds exactly the
\* triple that is in memory.
C7_SuccessMeansSaved ==
    TrainSucceeded => artifact = Dumped

\* a fitted encoder that has not seen a label of the records
UnseenLabel(recs) ==
    \E col \in DOMAIN label_encoders :
        /\ label_encoders[col].state = "fitted"
        /\ ~(Labels(recs, col) \subseteq label_encoders[col].classes)

\* C8: with encoders fitted, records holding a label the encoders never saw do
\* not make predict_next_month or a later train_model raise.
C8_UnseenLabelsDoNotRaise ==
    /\ (PredictReturnedFrom("predict_next_month") /\ UnseenLabel(pr.recs)
          /\ pr.recs.amounts_ok /\ CompleteTriple /\ ~TrainRunning)
          => Outcome(pr.result) # "raised"
    /\ (tr.pc = "returned" /\ tr.id > 0 /\ UnseenLabel(tr.recs) /\ tr.recs.amounts_ok)
          => Outcome(tr.result) # "raised"

(***************************************************************************)
(* One day of the forecast: forecasting.py:238-245.                        *)
(* The regressor's output is any number; it is taken in hundredths of a    *)
(* cent, the reported amounts in cents.  Python's round(x, 2) rounds to    *)
(* the nearest cent, a tie to the even cent; the products are taken        *)
(* exactly (the binary error of predicted_amount * 0.85 is not modelled).  *)
(***************************************************************************)
\* round(num / den) to the nearest integer, a tie to the even one (den > 0)
RoundHalfEven(num, den) ==
    LET q == num \div den
        r == num % den
    IN  IF 2 * r < den THEN q
        ELSE IF 2 * r > den THEN q + 1
        ELSE IF q % 2 = 0 THEN q ELSE q + 1

\* the band with its two factors exchanged
day_prediction_swapped(day, raw) ==
    [ date |-> day,
      predicted_amount |-> RoundHalfEven(raw, 100),
      confidence_lower |-> RoundHalfEven(raw * 115, 10000),
      confidence_upper |-> RoundHalfEven(raw * 85, 10000) ]

\* lines 240-245: the dictionary of one day
day_prediction(day, raw) ==
    [ date |-> day,
      predicted_amount |-> RoundHalfEven(raw, 100),
      confidence_lower |-> RoundHalfEven(raw * 85, 10000),
      confidence_upper |-> RoundHalfEven(raw * 115, 10000) ]

RawOutputs == (0 - MaxRaw) .. MaxRaw

\* The loop body carries nothing from one day to the next but the day's
\* number: a behaviour starts at any day of the loop, the regressor having
\* returned any output for it (line 238).
InitBand ==
    /\ day_no \in 0 .. (ForecastDays - 1)
    /\ raw_amount \in RawOutputs
    /\ prediction = NoResult
    /\ ForecasterAtRest
    /\ DetectorAtRest
    /\ CallAtRest
    /\ ModelsAtRest

\* lines 240-245: the day's dictionary is appended to predictions
predict_day ==
    /\ prediction = NoResult
    /\ day_no' = day_no + 1
    /\ prediction' = day_prediction(day_no + 1, raw_amount)
    /\ UNCHANGED << raw_amount, notBand >>

NextBand == predict_day

SpecBand == InitBand /\ [][NextBand]_vars

\* C9 as stated: on every predicted day lower <= predicted <= upper, and the
\* reported lower and upper are exactly 0.85 and 1.15 times the reported
\* predicted_amount.
C9_BandExact ==
    prediction # NoResult =>
        /\ prediction.confidence_lower <= prediction.predicted_amount
        /\ prediction.predicted_amount <= prediction.confidence_upper
        /\ 100 * prediction.confidence_lower = 85 * prediction.predicted_amount
        /\ 100 * prediction.confidence_upper = 115 * prediction.predicted_amount

Abs(x) == IF x < 0 THEN 0 - x ELSE x

\* C9 as amended: on every predicted day the three amounts are roundings to
\* cents of the same output, so lower <= predicted <= upper for an output >= 0
\* (upper <= predicted <= lower for an output <= 0), and lower and upper are
\* within 0.93 and 1.08 cents of 0.85 and 1.15 times the reported
\* predicted_amount.
C9_BandWithinACent ==
    prediction # NoResult =>
        /\ raw_amount >= 0 =>
              /\ prediction.confidence_lower <= prediction.predicted_amount
              /\ prediction.predicted_amount <= prediction.confidence_upper
        /\ raw_amount <= 0 =>
              /\ prediction.confidence_upper <= prediction.predicted_amount
              /\ prediction.predicted_amount <= prediction.confidence_lower
        /\ Abs(100 * prediction.confidence_lower - 85 * prediction.predicted_amount) <= 92
        /\ Abs(100 * prediction.confidence_upper - 115 * prediction.predicted_amount) <= 107

\* the thirtieth day, with a band that is not exactly 0.85 / 1.15 of the
\* reported amount
C9_Witness ==
    /\ day_no = ForecastDays
    /\ prediction # NoResult
    /\ raw_amount > 0
    /\ 100 * prediction.confidence_lower # 85 * prediction.predicted_amount
    /\ 100 * prediction.confidence_upper # 115 * prediction.predicted_amount

(***************************************************************************)
(* AnomalyDetector.detect_amount_anomalies  (anomaly_detection.py:23-56)   *)
(* A record list is the sequence of its amounts (whole dollars); a row's   *)
(* index stands for its id, date and category.                             *)
(***************************************************************************)
RECURSIVE SumSeq(_)
SumSeq(s) == IF s = << >> THEN 0 ELSE Head(s) + SumSeq(Tail(s))

\* stats.zscore(df['amount']) is (a - mean) / std with the population std
\* (ddof = 0).  With n rows of sum S: a[i] - mean = ZNum / n, and
\* std * std = SqDevSum / n^3, so z[i]^2 = n * ZNum^2 / SqDevSum.
ZNum(s, i) == Len(s) * s[i] - SumSeq(s)
SqDevSum(s) == SumSeq([j \in 1..Len(s) |-> ZNum(s, j) * ZNum(s, j)])
\* all amounts equal: std is 0 and every z-score is 0/0, NaN
ZIsNaN(s) == SqDevSum(s) = 0

\* the filter without .abs(): only the rows above the mean
IsAnomalySigned(s, i, sigma2) ==
    /\ ~ZIsNaN(s)
    /\ ZNum(s, i) > 0
    /\ 4 * Len(s) * ZNum(s, i) * ZNum(s, i) > sigma2 * sigma2 * SqDevSum(s)

\* line 38: df['z_score'].abs() > self.threshold_sigma  (false for NaN);
\* sigma2 is twice the threshold
IsAnomaly(s, i, sigma2) ==
    /\ ~ZIsNaN(s)
    /\ 4 * Len(s) * ZNum(s, i) * ZNum(s, i) > sigma2 * sigma2 * SqDevSum(s)

\* the severity taken from the size of the z-score
SeverityAbs(s, i) ==
    IF Len(s) * ZNum(s, i) * ZNum(s, i) > 9 * SqDevSum(s) THEN "high" ELSE "medium"

\* line 52: row['z_score'] > 3
Severity(s, i) ==
    IF ZNum(s, i) > 0 /\ Len(s) * ZNum(s, i) * ZNum(s, i) > 9 * SqDevSum(s)
    THEN "high" ELSE "medium"

\* lines 42-54: the dictionary of one flagged row, money in cents
AmountAnomaly(s, i) ==
    [ row |-> i,
      amount |-> 100 * s[i],
      expected_amount |-> RoundHalfEven(100 * SumSeq(s), Len(s)),
      deviation |-> RoundHalfEven(100 * ZNum(s, i), Len(s)),
      severity |-> Severity(s, i) ]

RECURSIVE AnomaliesFrom(_, _, _)
AnomaliesFrom(s, i, sigma2) ==
    IF i > Len(s) THEN << >>
    ELSE IF IsAnomaly(s, i, sigma2)
    THEN << AmountAnomaly(s, i) >> \o AnomaliesFrom(s, i + 1, sigma2)
    ELSE AnomaliesFrom(s, i + 1, sigma2)

detect_amount_anomalies(s, sigma2) ==
    IF Len(s) < MinAmountRecords THEN << >> ELSE AnomaliesFrom(s, 1, sigma2)

\* Amounts: 1 and 100.  Twenty rows of 1 and one of 100 have the z-scores of
\* twenty rows of 50 and one of 5000 (the z-score does not change with the unit).
Amounts == {1, 100}
TwentyAndOne == [i \in 1..21 |-> IF i = 21 THEN 100 ELSE 1]

\* anomaly_detection.py:16,21: threshold_sigma is 2, 2.5 (the default) or 3
InitDetector ==
    /\ threshold_sigma \in {4, 5, 6}
    /\ expenses_data \in {<< >>, TwentyAndOne}
    /\ anomalies = NotScanned
    /\ ForecasterAtRest
    /\ BandAtRest
    /\ CallAtRest
    /\ ModelsAtRest

\* the caller's list grows by a record
AddExpense(amount) ==
    /\ Len(expenses_data) < MaxRows
    /\ expenses_data' = Append(expenses_data, amount)
    /\ anomalies' = NotScanned
    /\ UNCHANGED << threshold_sigma, notDetector >>

\* detector.detect_amount_anomalies(expenses_data)
DetectAmounts ==
    /\ ~anomalies.done
    /\ anomalies' = [done |-> TRUE,
                     results |-> detect_amount_anomalies(expenses_data, threshold_sigma)]
    /\ UNCHANGED << threshold_sigma, expenses_data, notDetector >>

NextDetector ==
    \/ \E amount \in Amounts : AddExpense(amount)
    \/ DetectAmounts

SpecDetector == InitDetector /\ [][NextDetector]_vars

\* The population z-score by its definition: mean S/n, variance Q/n - (S/n)^2
\* with Q the sum of the squares, so z[i]^2 = (n*a[i] - S)^2 / (n*Q - S^2).
PopVarNum(s) == Len(s) * SumSeq([j \in 1..Len(s) |-> s[j] * s[j]]) - SumSeq(s) * SumSeq(s)
AbsZAbove(s, i, sigma2) ==
    /\ PopVarNum(s) > 0
    /\ 4 * (Len(s) * s[i] - SumSeq(s)) * (Len(s) * s[i] - SumSeq(s))
          > sigma2 * sigma2 * PopVarNum(s)
AbsZAtMost(s, i, sigma2) ==
    /\ PopVarNum(s) > 0
    /\ 4 * (Len(s) * s[i] - SumSeq(s)) * (Len(s) * s[i] - SumSeq(s))
          <= sigma2 * sigma2 * PopVarNum(s)
Returned(i) == \E k \in DOMAIN anomalies.results : anomalies.results[k].row = i

\* C10 as stated: for a list of at least 10 rows, every returned row has
\* |z| > threshold_sigma and every row not returned has |z| <= threshold_sigma.
C10_ExactlyTheOutliers ==
    (anomalies.done /\ Len(expenses_data) >= 10) =>
        \A i \in DOMAIN expenses_data :
            /\ Returned(i) => AbsZAbove(expenses_data, i, threshold_sigma)
            /\ ~Returned(i) => AbsZAtMost(expenses_data, i, threshold_sigma)

\* C10 as amended: for a list of at least 10 rows, every returned row has
\* |z| > threshold_sigma, and every row not returned has |z| <= threshold_sigma
\* or no z-score at all (all amounts are equal, the standard deviation is 0);
\* twenty rows of 50 and one of 5000 give exactly the row of 5000, 'high'.
C10_OutliersOrUndefined ==
    /\ (anomalies.done /\ Len(expenses_data) >= 10) =>
          \A i \in DOMAIN expenses_data :
              /\ Returned(i) => AbsZAbove(expenses_data, i, threshold_sigma)
              /\ ~Returned(i) => \/ AbsZAtMost(expenses_data, i, threshold_sigma)
                                 \/ PopVarNum(expenses_data) = 0
    /\ (anomalies.done /\ expenses_data = TwentyAndOne) =>
          /\ Len(anomalies.results) = 1
          /\ anomalies.results[1].row = 21
          /\ anomalies.results[1].amount = 100 * 100
          /\ anomalies.results[1].severity = "high"

\* a scanned list of at least 10 rows with a row that is returned and a row
\* that is not
C10_Witness ==
    /\ anomalies.done
    /\ Len(expenses_data) >= 10
    /\ \E i, j \in DOMAIN expenses_data : Returned(i) /\ ~Returned(j)

(***************************************************************************)
(* A call of a stateless operation: call holds the operation and its       *)
(* arguments, results what the calls made so far returned.                 *)
(***************************************************************************)
\* a returned value, as opposed to Raised(exc)
Value(v) == [value |-> v]
Thresholds == {4, 5, 6}

(***************************************************************************)
(* AnomalyDetector.detect_category_anomalies (anomaly_detection.py:58-104) *)
(* The arguments are what the code reads of the record list: the number of *)
(* distinct dates of the historical rows, and for every category its       *)
(* historical amounts (whole dollars) and its recent total.  The rows of   *)
(* "Other" (4 or 25 of them, 6 dollars each) make the history shorter or   *)
(* longer than the 10 rows the detector asks for.                          *)
(***************************************************************************)
ScanCategories == << "Food", "Bills", "Other" >>
CategoryInputs ==
    { [op |-> "detect_category_anomalies", hist_days |-> o[2],
       cats |-> [c \in {"Food", "Bills", "Other"} |->
                   IF c = "Food" THEN f
                   ELSE IF c = "Bills" THEN b
                   ELSE [hist |-> [j \in 1..o[1] |-> 6], recent |-> o[3]]]] :
        o \in {<< 4, 3, 0 >>, << 25, 30, 0 >>, << 25, 15, 6 >>},
        f \in { [hist |-> hs, recent |-> r] :
                  hs \in {<< >>, << 6 >>, << 6, 6 >>, << 5, 8 >>, << 5, 6, 8 >>},
                  r \in {0, 10, 60} },
        b \in { [hist |-> hs, recent |-> r] :
                  hs \in {<< >>, << 6, 6 >>, << 5, 8 >>}, r \in {0, 60} } }

\* line 73: len(historical_df)
HistRows(inp) == SumSeq([i \in 1..Len(ScanCategories) |-> Len(inp.cats[ScanCategories[i]].hist)])

\* line 78: category in df['category'].unique()
CatPresent(inp, c) == inp.cats[c].hist # << >> \/ inp.cats[c].recent > 0
\* line 85: historical_mean is 30 * sum / days; recent_cat - historical_mean
\* is ShiftNum / days
HistSum(inp, c) == SumSeq(inp.cats[c].hist)
ShiftNum(inp, c) == inp.hist_days * inp.cats[c].recent - 30 * HistSum(inp, c)
\* line 86: Series.std() is the sample deviation (ddof = 1): NaN for one
\* amount, else the root of HistVarNum / (k * (k - 1))
HistVarNum(inp, c) ==
    LET h == inp.cats[c].hist
    IN  Len(h) * SumSeq([j \in 1..Len(h) |-> h[j] * h[j]]) - SumSeq(h) * SumSeq(h)
\* line 89: historical_std > 0  (false for NaN)
StdPositive(inp, c) == Len(inp.cats[c].hist) >= 2 /\ HistVarNum(inp, c) > 0
\* lines 90-92: abs((recent_cat - historical_mean) / (historical_std + 1))
\* > threshold_sigma, with sigma2 twice the threshold
ShiftAbove(inp, c, sigma2) ==
    LET k == Len(inp.cats[c].hist)
        x == IF ShiftNum(inp, c) < 0 THEN 0 - ShiftNum(inp, c) ELSE ShiftNum(inp, c)
        m == 2 * x - sigma2 * inp.hist_days
    IN  /\ m > 0
        /\ m * m * k * (k - 1)
              > sigma2 * sigma2 * inp.hist_days * inp.hist_days * HistVarNum(inp, c)
\* lines 82-92: the category is flagged
CategoryFlagged(inp, c, sigma2) ==
    /\ inp.cats[c].hist # << >>
    /\ StdPositive(inp, c)
    /\ ShiftAbove(inp, c, sigma2)
\* line 100: abs(percent_change) > 50, percent_change being
\* (recent_cat - historical_mean) / historical_mean * 100
CategorySeverity(inp, c) ==
    LET x == IF ShiftNum(inp, c) < 0 THEN 0 - ShiftNum(inp, c) ELSE ShiftNum(inp, c)
    IN  IF 100 * x > 50 * 30 * HistSum(inp, c) THEN "high" ELSE "medium"
\* lines 95-102: money in cents, percent_change in hundredths of a percent
CategoryAnomaly(inp, c) ==
    [ category |-> c,
      current_spending |-> 100 * inp.cats[c].recent,
      historical_average |-> RoundHalfEven(100 * 30 * HistSum(inp, c), inp.hist_days),
      percent_change |-> RoundHalfEven(10000 * ShiftNum(inp, c), 30 * HistSum(inp, c)),
      severity |-> CategorySeverity(inp, c) ]

RECURSIVE CategoryAnomaliesFrom(_, _, _)
CategoryAnomaliesFrom(inp, i, sigma2) ==
    IF i > Len(ScanCategories) THEN << >>
    ELSE IF CatPresent(inp, ScanCategories[i])
            /\ CategoryFlagged(inp, ScanCategories[i], sigma2)
    THEN << CategoryAnomaly(inp, ScanCategories[i]) >>
            \o CategoryAnomaliesFrom(inp, i + 1, sigma2)
    ELSE CategoryAnomaliesFrom(inp, i + 1, sigma2)

\* line 104: sorted(..., key=abs(percent_change), reverse=True), a stable sort
AbsInt(x) == IF x < 0 THEN 0 - x ELSE x
RECURSIVE InsertByChange(_, _)
InsertByChange(sorted, a) ==
    IF sorted = << >> THEN << a >>
    ELSE IF AbsInt(Head(sorted).percent_change) >= AbsInt(a.percent_change)
    THEN << Head(sorted) >> \o InsertByChange(Tail(sorted), a)
    ELSE << a >> \o sorted
RECURSIVE SortedByChange(_)
SortedByChange(as) ==
    IF as = << >> THEN << >>
    ELSE InsertByChange(SortedByChange(SubSeq(as, 1, Len(as) - 1)), as[Len(as)])

detect_category_anomalies(inp, sigma2) ==
    IF HistRows(inp) < MinHistoricalRows THEN << >>
    ELSE SortedByChange(CategoryAnomaliesFrom(inp, 1, sigma2))

detect_category_call ==
    /\ call.op = "detect_category_anomalies"
    /\ results = << >>
    /\ results' = << Value(detect_category_anomalies(call, threshold_sigma)) >>
    /\ UNCHANGED << now, call, avars, notCall >>

(***************************************************************************)
(* AnomalyDetector.detect_frequency_anomalies                              *)
(* (anomaly_detection.py:106-134).  The argument is daily_counts, the      *)
(* number of transactions of each date that has any.                       *)
(***************************************************************************)
DayCounts == {1, 6}
FrequencyInputs ==
    { [op |-> "detect_frequency_anomalies", counts |-> cs] :
        cs \in UNION { [1..n -> DayCounts] : n \in 1..MaxDays } }

\* lines 116-117: count - mean is CountDev / n, and std (ddof = 1) squared is
\* CountVarNum / (n * (n - 1)); std is NaN for a single day
CountDev(cs, i) == Len(cs) * cs[i] - SumSeq(cs)
CountVarNum(cs) ==
    Len(cs) * SumSeq([j \in 1..Len(cs) |-> cs[j] * cs[j]]) - SumSeq(cs) * SumSeq(cs)
\* line 122: std_count > 0
CountStdPositive(cs) == Len(cs) >= 2 /\ CountVarNum(cs) > 0
\* lines 123-125: z_score > self.threshold_sigma, one-sided
FrequencyFlagged(cs, i, sigma2) ==
    /\ CountStdPositive(cs)
    /\ CountDev(cs, i) > 0
    /\ 4 * CountDev(cs, i) * CountDev(cs, i) * (Len(cs) - 1)
          > sigma2 * sigma2 * Len(cs) * CountVarNum(cs)
\* line 130: z_score > 3
FrequencySeverity(cs, i) ==
    IF CountDev(cs, i) > 0
       /\ CountDev(cs, i) * CountDev(cs, i) * (Len(cs) - 1) > 9 * Len(cs) * CountVarNum(cs)
    THEN "high" ELSE "medium"
\* lines 126-132: expected_count in tenths
FrequencyAnomaly(cs, i) ==
    [ date |-> i,
      transaction_count |-> cs[i],
      expected_count |-> RoundHalfEven(10 * SumSeq(cs), Len(cs)),
      severity |-> FrequencySeverity(cs, i) ]

RECURSIVE FrequencyAnomaliesFrom(_, _, _)
FrequencyAnomaliesFrom(cs, i, sigma2) ==
    IF i > Len(cs) THEN << >>
    ELSE IF FrequencyFlagged(cs, i, sigma2)
    THEN << FrequencyAnomaly(cs, i) >> \o FrequencyAnomaliesFrom(cs, i + 1, sigma2)
    ELSE FrequencyAnomaliesFrom(cs, i + 1, sigma2)

detect_frequency_anomalies(cs, sigma2) == FrequencyAnomaliesFrom(cs, 1, sigma2)

detect_frequency_call ==
    /\ call.op = "detect_frequency_anomalies"
    /\ results = << >>
    /\ results' = << Value(detect_frequency_anomalies(call.counts, threshold_sigma)) >>
    /\ UNCHANGED << now, call, avars, notCall >>

(***************************************************************************)
(* The three detectors of get_all_anomalies (anomaly_detection.py:178-188) *)
(* one at a time.                                                          *)
(***************************************************************************)
InitScan ==
    /\ threshold_sigma \in Thresholds
    /\ anomalies = NotScanned
    /\ now = 0
    /\ results = << >>
    /\ \/ call = NoCall /\ expenses_data \in {<< >>, TwentyAndOne}
       \/ call \in CategoryInputs \cup FrequencyInputs /\ expenses_data = << >>
    /\ ForecasterAtRest
    /\ BandAtRest
    /\ ModelsAtRest

NextScan ==
    \/ call = NoCall /\ \E amount \in Amounts : AddExpense(amount)
    \/ call = NoCall /\ DetectAmounts
    \/ detect_category_call
    \/ detect_frequency_call

SpecScan == InitScan /\ [][NextScan]_vars

\* what the detectors returned
CategoryResults ==
    IF call.op = "detect_category_anomalies" /\ results # << >>
    THEN results[1].value ELSE << >>
FrequencyResults ==
    IF call.op = "detect_frequency_anomalies" /\ results # << >>
    THEN results[1].value ELSE << >>
HighIf(cond) == IF cond THEN "high" ELSE "medium"

\* z > 3 for row i of the amounts s, with the population deviation
AmountZAbove3(s, i) ==
    /\ Len(s) * s[i] - SumSeq(s) > 0
    /\ (Len(s) * s[i] - SumSeq(s)) * (Len(s) * s[i] - SumSeq(s)) > 9 * PopVarNum(s)
\* z > 3 for day i of the counts cs, with the sample deviation:
\* (c - mean)^2 * (n - 1) > 9 * sum of (c[j] - mean)^2
CountZAbove3(cs, i) ==
    /\ Len(cs) * cs[i] - SumSeq(cs) > 0
    /\ (Len(cs) * cs[i] - SumSeq(cs)) * (Len(cs) * cs[i] - SumSeq(cs)) * (Len(cs) - 1)
          > 9 * SumSeq([j \in 1..Len(cs) |->
                          (Len(cs) * cs[j] - SumSeq(cs)) * (Len(cs) * cs[j] - SumSeq(cs))])
\* (recent - baseline) / baseline * 100, the baseline being 30 * sum / days:
\* above 50, and above 50 in size
ChangeAbove50(inp, c) ==
    2 * (inp.hist_days * inp.cats[c].recent - 30 * HistSum(inp, c)) > 30 * HistSum(inp, c)
ChangeBeyond50(inp, c) ==
    2 * AbsInt(inp.hist_days * inp.cats[c].recent - 30 * HistSum(inp, c))
        > 30 * HistSum(inp, c)

AmountSeverityRight ==
    \A k \in DOMAIN anomalies.results :
        anomalies.results[k].severity
            = HighIf(AmountZAbove3(expenses_data, anomalies.results[k].row))
FrequencySeverityRight ==
    \A k \in DOMAIN FrequencyResults :
        FrequencyResults[k].severity
            = HighIf(CountZAbove3(call.counts, FrequencyResults[k].date))

\* C11 as stated: a result of the amount or frequency detector is 'high'
\* exactly when its z > 3, a result of the category detector exactly when its
\* percent_change > 50; every other result is 'medium', none is 'low'.
C11_HighExactlyAbove ==
    /\ AmountSeverityRight
    /\ FrequencySeverityRight
    /\ \A k \in DOMAIN CategoryResults :
          CategoryResults[k].severity
              = HighIf(ChangeAbove50(call, CategoryResults[k].category))

\* C11 as amended: a result of the amount or frequency detector is 'high'
\* exactly when its z > 3, a result of the category detector exactly when the
\* size of its (unrounded) percent change is above 50, a decrease included;
\* every other result is 'medium', none is 'low'.
C11_HighExactlyBeyond ==
    /\ AmountSeverityRight
    /\ FrequencySeverityRight
    /\ \A k \in DOMAIN CategoryResults :
          CategoryResults[k].severity
              = HighIf(ChangeBeyond50(call, CategoryResults[k].category))

\* the category detector returned a decrease of more than 50 percent and a
\* change of at most 50 percent
C11_Witness ==
    /\ \E k \in DOMAIN CategoryResults :
          CategoryResults[k].percent_change < 0 - 5000
    /\ \E k \in DOMAIN CategoryResults :
          AbsInt(CategoryResults[k].percent_change) < 5000

\* |recent - baseline| / (std + 1) > threshold, std being the sample deviation
\* of the category's historical amounts, 0 when they are all equal
ScoreAbove(inp, c, sigma2) ==
    LET h == inp.cats[c].hist
        k == Len(h)
        dev2 == SumSeq([j \in 1..k |-> (k * h[j] - SumSeq(h)) * (k * h[j] - SumSeq(h))])
        m == 2 * AbsInt(inp.hist_days * inp.cats[c].recent - 30 * SumSeq(h))
                - sigma2 * inp.hist_days
    IN  IF dev2 = 0 THEN m > 0
        ELSE /\ m > 0
             /\ m * m * k * k * (k - 1)
                   > sigma2 * sigma2 * inp.hist_days * inp.hist_days * dev2

\* C12: with at least 10 historical rows, a category with a historical record
\* is flagged if and only if |recent - baseline| / (std + 1) > threshold_sigma,
\* the categories whose historical deviation is 0 included.
C12_FlaggedIffScoreAbove ==
    (call.op = "detect_category_anomalies" /\ results # << >> /\ HistRows(call) >= 10) =>
        \A c \in DOMAIN call.cats :
            call.cats[c].hist # << >> =>
                ((\E k \in DOMAIN CategoryResults : CategoryResults[k].category = c)
                    <=> ScoreAbove(call, c, threshold_sigma))

(***************************************************************************)
(* AnomalyDetector.detect_budget_overrun (anomaly_detection.py:136-176)    *)
(* and the route get_budget_status (ml_routes.py:180-246).                 *)
(* A record is [month, day, amount]: month counts the months of all years  *)
(* (year * 12 + month), amount and budget are whole dollars; the status    *)
(* reports money in cents and percent_over_budget in hundredths.           *)
(***************************************************************************)
BudgetRecords == { [month |-> m, day |-> d, amount |-> a] :
                     m \in {1, 2}, d \in {1, 15, 31}, a \in {100, 400} }
BudgetLists == UNION { [1..n -> BudgetRecords] : n \in 0..MaxRecords }
BudgetInputs ==
    { [op |-> "get_budget_status", has_budget |-> h, monthly_budget |-> b,
       fetched |-> f, expenses |-> es] :
        h \in BOOLEAN, b \in {0 - 100, 0, 100, 1000}, f \in BOOLEAN, es \in BudgetLists }

\* df['date'].max(): the latest record
Later(r, q) == r.month > q.month \/ (r.month = q.month /\ r.day >= q.day)
MaxDate(es) == CHOOSE r \in {es[i] : i \in DOMAIN es} :
                   \A i \in DOMAIN es : Later(r, es[i])
\* lines 145-146: the month and year of the latest record
CurrentMonthByClock(es) == now
CurrentMonth(es) == MaxDate(es).month
\* lines 148-151: the records of that month
IsCurrent(es, r) == r.month = CurrentMonth(es)
AllExpenses(es) == es
MonthExpenses(es) == SelectSeq(es, LAMBDA r : IsCurrent(es, r))
\* line 153
TotalSpent(es) ==
    SumSeq([i \in 1..Len(MonthExpenses(es)) |-> MonthExpenses(es)[i].amount])
\* line 154
DaysPassed(es) == MaxDate(es).day
\* lines 158-161: projected_total is 30 * total_spent / days_passed
IsOverrun(es, budget) == days_in_month * TotalSpent(es) > budget * DaysPassed(es)
\* line 162: percent_over is OverNum / (budget * days_passed) * 100
OverNum(es, budget) == days_in_month * TotalSpent(es) - budget * DaysPassed(es)
\* line 174
BudgetSeverity(es, budget) ==
    IF IsOverrun(es, budget) /\ 100 * OverNum(es, budget) > 20 * budget * DaysPassed(es)
    THEN "high"
    ELSE IF IsOverrun(es, budget) /\ 100 * OverNum(es, budget) > 10 * budget * DaysPassed(es)
    THEN "medium" ELSE "low"

\* lines 141-176; an empty list gives a frame without columns and df['date']
\* raises KeyError (line 142)
detect_budget_overrun(es, budget) ==
    IF es = << >> THEN Raised("KeyError")
    ELSE Value(
      [ is_overrun_risk |-> IsOverrun(es, budget),
        total_spent |-> 100 * TotalSpent(es),
        monthly_budget |-> 100 * budget,
        remaining_budget |-> 100 * (budget - TotalSpent(es)),
        projected_total |-> RoundHalfEven(100 * days_in_month * TotalSpent(es), DaysPassed(es)),
        projected_overage |-> IF IsOverrun(es, budget)
                              THEN RoundHalfEven(100 * OverNum(es, budget), DaysPassed(es))
                              ELSE 0,
        percent_over_budget |-> IF IsOverrun(es, budget)
                                THEN RoundHalfEven(10000 * OverNum(es, budget),
                                                   budget * DaysPassed(es))
                                ELSE 0,
        days_remaining |-> days_in_month - DaysPassed(es),
        recommended_daily_limit |->
            IF DaysPassed(es) < days_in_month
            THEN RoundHalfEven(100 * (budget - TotalSpent(es)),
                               days_in_month - DaysPassed(es))
            ELSE 0,
        severity |-> BudgetSeverity(es, budget) ])

\* ml_routes.py:200-210, 215-219
BudgetRefused(error) == [success |-> FALSE, error |-> error, status |-> 400]
\* ml_routes.py:242-246
BudgetCheckFailed == [success |-> FALSE, error |-> "Budget check failed", status |-> 500]
\* ml_routes.py:222-235: no expenses; recommended_daily_limit is
\* monthly_budget / 30, not rounded (here: numerator and denominator)
EmptyBudgetStatus(budget) ==
    [ is_overrun_risk |-> FALSE, total_spent |-> 0, monthly_budget |-> 100 * budget,
      remaining_budget |-> 100 * budget, projected_total |-> 0, projected_overage |-> 0,
      percent_over_budget |-> 0, days_remaining |-> 30,
      recommended_daily_limit |-> << 100 * budget, 30 >>,
      severity |-> "low", status |-> 200 ]

\* the route without lines 221-235
get_budget_status_unguarded(inp) ==
    IF ~inp.has_budget \/ inp.monthly_budget = 0
    THEN BudgetRefused("Monthly budget parameter required")
    ELSE IF inp.monthly_budget <= 0
    THEN BudgetRefused("Monthly budget must be greater than 0")
    ELSE IF ~inp.fetched THEN BudgetRefused("Failed to get expenses")
    ELSE IF "raised" \in DOMAIN detect_budget_overrun(inp.expenses, inp.monthly_budget)
    THEN BudgetCheckFailed
    ELSE WithStatus(detect_budget_overrun(inp.expenses, inp.monthly_budget).value, 200)

\* ml_routes.py:196-246
get_budget_status(inp) ==
    IF ~inp.has_budget \/ inp.monthly_budget = 0
    THEN BudgetRefused("Monthly budget parameter required")
    ELSE IF inp.monthly_budget <= 0
    THEN BudgetRefused("Monthly budget must be greater than 0")
    ELSE IF ~inp.fetched THEN BudgetRefused("Failed to get expenses")
    ELSE IF inp.expenses = << >> THEN EmptyBudgetStatus(inp.monthly_budget)
    ELSE IF "raised" \in DOMAIN detect_budget_overrun(inp.expenses, inp.monthly_budget)
    THEN BudgetCheckFailed
    ELSE WithStatus(detect_budget_overrun(inp.expenses, inp.monthly_budget).value, 200)

InitBudget ==
    /\ now \in {1, 2}
    /\ call \in BudgetInputs
    /\ results = << >>
    /\ threshold_sigma \in Thresholds
    /\ expenses_data = << >>
    /\ anomalies = NotScanned
    /\ ForecasterAtRest
    /\ BandAtRest
    /\ ModelsAtRest

\* a request; the same request is made at most twice
get_budget_status_call ==
    /\ call.op = "get_budget_status"
    /\ Len(results) < 2
    /\ results' = Append(results, get_budget_status(call))
    /\ UNCHANGED << now, call, avars, notCall >>

\* a month passes on the wall clock
Tick ==
    /\ now < 3
    /\ now' = now + 1
    /\ UNCHANGED << call, results, avars, notCall >>

NextBudget == get_budget_status_call \/ Tick

SpecBudget == InitBudget /\ [][NextBudget]_vars

\* the month of the latest record of a list, and the records of that month
LatestMonth(es) == CHOOSE m \in {es[i].month : i \in DOMAIN es} :
                       \A i \in DOMAIN es : es[i].month <= m
InLatestMonth(es, r) == r.month = LatestMonth(es)
LatestMonthRecords(es) == SelectSeq(es, LAMBDA r : InLatestMonth(es, r))
AgreeOnLatestMonth(es, other) ==
    /\ es # << >>
    /\ other # << >>
    /\ LatestMonth(es) = LatestMonth(other)
    /\ LatestMonthRecords(es) = LatestMonthRecords(other)
BudgetAnswered ==
    /\ call.op = "get_budget_status"
    /\ call.has_budget
    /\ call.monthly_budget > 0
    /\ call.fetched

\* C13: the budget status of a record list is the status of every record list
\* that has the same records in the month of the latest record, whatever the
\* older records are and whatever the wall clock says when it is computed.
C13_LatestMonthOnly ==
    BudgetAnswered /\ call.expenses # << >> =>
        \A i \in DOMAIN results : \A other \in BudgetLists :
            AgreeOnLatestMonth(call.expenses, other) =>
                results[i] =
                    WithStatus(detect_budget_overrun(other, call.monthly_budget).value, 200)

\* older records are present and the status was computed when the wall clock
\* was two months past the first request
C13_Witness ==
    /\ BudgetAnswered
    /\ Len(call.expenses) = 2
    /\ call.expenses[1].month < call.expenses[2].month
    /\ Len(results) = 2
    /\ now = 3

C15_EmptyListStatus ==
    BudgetAnswered /\ call.expenses = << >> =>
        \A i \in DOMAIN results :
            /\ results[i].status = 200
            /\ results[i].is_overrun_risk = FALSE
            /\ results[i].remaining_budget = 100 * call.monthly_budget

C15_Witness ==
    /\ BudgetAnswered
    /\ call.expenses = << >>
    /\ call.monthly_budget = 1000
    /\ results # << >>

(***************************************************************************)
(* InsightsGenerator (insights.py).  A ledger is a record list given by    *)
(* the number of rows it has of each of six kinds; every row has a date of *)
(* its own, all in one month, and amounts are whole dollars.  "dates" is   *)
(* what a row's date holds: a datetime, or the ISO string that            *)
(* Expense.to_dict (models/expense_model.py:48) makes of it, which is what *)
(* the routes pass on.                                                     *)
(***************************************************************************)
LedgerKinds ==
    << [category |-> "Food",          amount |-> 5,   weekend |-> FALSE, payment_type |-> "Cash"],
       [category |-> "Shopping",      amount |-> 5,   weekend |-> TRUE,  payment_type |-> "Card"],
       [category |-> "Bills",         amount |-> 150, weekend |-> FALSE, payment_type |-> "Card"],
       [category |-> "Transport",     amount |-> 30,  weekend |-> FALSE, payment_type |-> "Cash"],
       [category |-> "Entertainment", amount |-> 150, weekend |-> TRUE,  payment_type |-> "Card"],
       [category |-> "Healthcare",    amount |-> 5,   weekend |-> FALSE, payment_type |-> "Card"] >>
LedgerRows ==
    { << food, shopping, bills, transport, entertainment, healthcare >> :
        food \in {0, 16, 21}, shopping \in {0, 6, 16}, bills \in {0, 2, 4},
        transport \in {0, 11}, entertainment \in {0, 9}, healthcare \in {0, 17, 22} }
DateKinds == {"datetime", "string"}
\* groupby('category') iterates the categories in sorted order
LedgerCategories ==
    << "Bills", "Entertainment", "Food", "Healthcare", "Shopping", "Transport" >>

\* len(df[...]) and df[...]['amount'].sum() over the rows that satisfy P
CountWhere(inp, P(_)) ==
    SumSeq([k \in DOMAIN LedgerKinds |-> IF P(LedgerKinds[k]) THEN inp.rows[k] ELSE 0])
AmountWhere(inp, P(_)) ==
    SumSeq([k \in DOMAIN LedgerKinds |->
              IF P(LedgerKinds[k]) THEN inp.rows[k] * LedgerKinds[k].amount ELSE 0])
AnyRow(r) == TRUE
LedgerLen(inp) == CountWhere(inp, AnyRow)
CategoryRows(inp, c) == CountWhere(inp, LAMBDA r : r.category = c)
CategoryTotal(inp, c) == AmountWhere(inp, LAMBDA r : r.category = c)

(***************************************************************************)
(* generate_saving_opportunities (insights.py:57-133); money in cents      *)
(***************************************************************************)
\* lines 64-78: one suggestion for every category with more than 15
\* purchases under 20 dollars
SmallCount(inp, c) == CountWhere(inp, LAMBDA r : r.category = c /\ r.amount < 20)
SmallTotal(inp, c) == AmountWhere(inp, LAMBDA r : r.category = c /\ r.amount < 20)
FrequentSmall(inp, c) ==
    [ type |-> "frequent_small_purchases", category |-> c,
      current_monthly |-> 100 * SmallTotal(inp, c),
      potential_savings |-> 30 * SmallTotal(inp, c),
      impact |-> IF 30 * SmallTotal(inp, c) > 5000 THEN "medium" ELSE "low" ]
RECURSIVE FrequentSmallFrom(_, _)
FrequentSmallFrom(inp, i) ==
    IF i > Len(LedgerCategories) THEN << >>
    ELSE (IF SmallCount(inp, LedgerCategories[i]) > 15
          THEN << FrequentSmall(inp, LedgerCategories[i]) >> ELSE << >>)
         \o FrequentSmallFrom(inp, i + 1)

\* a review suggested for every bill
SubscriptionReviewPerBill(inp) ==
    [i \in 1..CategoryRows(inp, "Bills") |->
        [ type |-> "subscription_review", category |-> "Bills",
          current_monthly |-> 100 * CategoryTotal(inp, "Bills"),
          potential_savings |-> 0, impact |-> "high" ]]
\* lines 80-92
SubscriptionReview(inp) ==
    IF CategoryRows(inp, "Bills") > 0
       /\ CategoryTotal(inp, "Bills") > 100 * CategoryRows(inp, "Bills")
    THEN << [ type |-> "subscription_review", category |-> "Bills",
              current_monthly |-> 100 * CategoryTotal(inp, "Bills"),
              potential_savings |->
                  RoundHalfEven(15 * CategoryTotal(inp, "Bills"), CategoryRows(inp, "Bills")),
              impact |-> "high" ] >>
    ELSE << >>

\* lines 94-114; every row has its own date, so the weekend days are the
\* weekend rows
WeekendDays(inp) == CountWhere(inp, LAMBDA r : r.weekend)
WeekdayDays(inp) == CountWhere(inp, LAMBDA r : ~r.weekend)
WeekendSpending(inp) == AmountWhere(inp, LAMBDA r : r.weekend)
WeekdaySpending(inp) == AmountWhere(inp, LAMBDA r : ~r.weekend)
WeekendOverspending(inp) ==
    IF WeekendDays(inp) > 0 /\ WeekdayDays(inp) > 0
       /\ 2 * WeekendSpending(inp) * WeekdayDays(inp)
            > 3 * WeekdaySpending(inp) * WeekendDays(inp)
    THEN << [ type |-> "weekend_spending", category |-> "Entertainment",
              current_monthly |-> 100 * WeekendSpending(inp),
              potential_savings |->
                  RoundHalfEven(320 * (WeekendSpending(inp) * WeekdayDays(inp)
                                         - WeekdaySpending(inp) * WeekendDays(inp)),
                                WeekendDays(inp) * WeekdayDays(inp)),
              impact |-> "medium" ] >>
    ELSE << >>

\* lines 116-131: the category with the largest total
TopCategory(inp) ==
    CHOOSE c \in {LedgerCategories[i] : i \in DOMAIN LedgerCategories} :
        /\ CategoryRows(inp, c) > 0
        /\ \A i \in DOMAIN LedgerCategories :
               CategoryTotal(inp, LedgerCategories[i]) <= CategoryTotal(inp, c)
CategoryOverweight(inp) ==
    IF 100 * CategoryTotal(inp, TopCategory(inp)) > 35 * AmountWhere(inp, AnyRow)
    THEN << [ type |-> "category_overweight", category |-> TopCategory(inp),
              current_monthly |-> 100 * CategoryTotal(inp, TopCategory(inp)),
              potential_savings |-> 20 * CategoryTotal(inp, TopCategory(inp)),
              impact |-> "high" ] >>
    ELSE << >>

\* line 133: sorted(opportunities, key=potential_savings, reverse=True);
\* equal keys keep their order
RECURSIVE InsertBySavings(_, _)
InsertBySavings(sorted, a) ==
    IF sorted = << >> THEN << a >>
    ELSE IF Head(sorted).potential_savings >= a.potential_savings
    THEN << Head(sorted) >> \o InsertBySavings(Tail(sorted), a)
    ELSE << a >> \o sorted
RECURSIVE SortedBySavings(_)
SortedBySavings(os) ==
    IF os = << >> THEN << >>
    ELSE InsertBySavings(SortedBySavings(SubSeq(os, 1, Len(os) - 1)), os[Len(os)])

\* lines 61-133: no rows give a frame without columns (KeyError at line 65);
\* string dates have no .dt accessor (AttributeError at line 95)
generate_saving_opportunities(inp) ==
    IF LedgerLen(inp) = 0 THEN Raised("KeyError")
    ELSE IF inp.dates = "string" THEN Raised("AttributeError")
    ELSE Value(SortedBySavings(FrequentSmallFrom(inp, 1) \o SubscriptionReview(inp)
                                 \o WeekendOverspending(inp) \o CategoryOverweight(inp)))

(***************************************************************************)
(* generate_budget_recommendations (insights.py:135-194).  Income is in    *)
(* cents; the amounts of a result are in cents, percentages in tenths.     *)
(* A binary float that lies half-way between two cents is formatted to     *)
(* either of them: "ties" says, for each formatted amount, whether such a  *)
(* value goes up.                                                          *)
(***************************************************************************)
Incomes == {0 - 100000, 0, 20000, 100000, 100001, 100003}
TieNames == {"needs_message", "wants_message", "needs_budget", "wants_budget"}
Ties == [TieNames -> BOOLEAN]

\* round(x, 2) and f"{x:.2f}" of x = num / den cents
ToCents(num, den, up) ==
    IF 2 * (num % den) = den
    THEN (IF up THEN num \div den + 1 ELSE num \div den)
    ELSE RoundHalfEven(num, den)

\* lines 144-148
needs_categories == {"Bills", "Food", "Healthcare", "Transport"}
wants_categories == {"Entertainment", "Shopping", "Other"}
needs_total(inp) == AmountWhere(inp, LAMBDA r : r.category \in needs_categories)
wants_total(inp) == AmountWhere(inp, LAMBDA r : r.category \in wants_categories)

\* lines 154-167
Allocation(inp) ==
    [ needs |-> IF AmountWhere(inp, AnyRow) > 0
                THEN RoundHalfEven(1000 * needs_total(inp), AmountWhere(inp, AnyRow)) ELSE 0,
      wants |-> IF AmountWhere(inp, AnyRow) > 0
                THEN RoundHalfEven(1000 * wants_total(inp), AmountWhere(inp, AnyRow)) ELSE 0,
      actual_needs |-> 100 * needs_total(inp),
      actual_wants |-> 100 * wants_total(inp) ]

\* line 174 with the share of wants
NeedsOverThirty(inp) == 10 * 100 * needs_total(inp) > 3 * inp.income
\* line 174: needs_total > recommended_needs, which is income * 0.50
NeedsOver(inp) == 2 * 100 * needs_total(inp) > inp.income
\* line 181: wants_total > recommended_wants, which is income * 0.30
WantsOver(inp) == 10 * 100 * wants_total(inp) > 3 * inp.income

\* lines 174-186: the messages name the reduction with two decimals
Adjustments(inp, ties) ==
    (IF NeedsOver(inp)
     THEN << [ category |-> "Needs",
               message |-> [reduce_by |-> ToCents(2 * 100 * needs_total(inp) - inp.income, 2,
                                                  ties["needs_message"])],
               priority |-> "high" ] >>
     ELSE << >>)
    \o
    (IF WantsOver(inp)
     THEN << [ category |-> "Wants",
               message |-> [reduce_by |-> ToCents(10 * 100 * wants_total(inp) - 3 * inp.income, 10,
                                                  ties["wants_message"])],
               priority |-> "medium" ] >>
     ELSE << >>)

\* lines 188-192
RecommendedAmounts(inp, ties) ==
    [ needs_budget |-> ToCents(inp.income, 2, ties["needs_budget"]),
      wants_budget |-> ToCents(3 * inp.income, 10, ties["wants_budget"]),
      savings_goal |-> RoundHalfEven(inp.income, 5) ]

\* lines 140-194: "if income:" takes an income of 0 for no income
generate_budget_recommendations(inp, ties) ==
    IF LedgerLen(inp) = 0 THEN Raised("KeyError")
    ELSE IF inp.has_income /\ inp.income # 0
    THEN Value([ current_allocation |-> Allocation(inp),
                 adjustments_needed |-> Adjustments(inp, ties),
                 recommended_amounts |-> RecommendedAmounts(inp, ties) ])
    ELSE Value([ current_allocation |-> Allocation(inp),
                 adjustments_needed |-> << >> ])

(***************************************************************************)
(* get_personalized_tips (insights.py:196-284)                             *)
(***************************************************************************)
Tip(category, tip, difficulty) ==
    [category |-> category, tip |-> tip, difficulty |-> difficulty]
\* lines 204-212
MealPlanning(inp) ==
    IF CategoryRows(inp, "Food") > 20
    THEN << Tip("Food", "Meal prep on Sundays", "easy") >> ELSE << >>
\* lines 214-222
PaymentMethod(inp) ==
    IF 10 * CountWhere(inp, LAMBDA r : r.payment_type = "Cash") > 3 * LedgerLen(inp)
    THEN << Tip("Payment", "Use cashback credit cards", "easy") >> ELSE << >>
\* lines 224-234: value_counts() lists the categories by falling count; the
\* first of Food and Healthcare with more than 15 rows gets the tip
BulkCandidates(inp) == {c \in {"Food", "Healthcare"} : CategoryRows(inp, c) > 15}
BulkBuying(inp) ==
    IF BulkCandidates(inp) # {}
    THEN << Tip(CHOOSE c \in BulkCandidates(inp) :
                    \A d \in BulkCandidates(inp) : CategoryRows(inp, d) <= CategoryRows(inp, c),
                "Buy items in bulk", "medium") >>
    ELSE << >>
\* lines 236-242
AutomatedSavings(inp) == << Tip("Savings", "Set up automatic transfers", "easy") >>
\* lines 244-252
PriceComparison(inp) ==
    IF CategoryRows(inp, "Shopping") > 5
    THEN << Tip("Shopping", "Use price comparison apps", "easy") >> ELSE << >>
\* lines 254-262
EnergyEfficiency(inp) ==
    IF CategoryRows(inp, "Bills") > 0 /\ CategoryTotal(inp, "Bills") > 200
    THEN << Tip("Bills", "Switch to LED bulbs", "easy") >> ELSE << >>
\* lines 264-272
TransportOptimization(inp) ==
    IF CategoryRows(inp, "Transport") > 10
    THEN << Tip("Transport", "Consider carpooling", "medium") >> ELSE << >>
\* lines 274-282
EntertainmentAlternatives(inp) ==
    IF CategoryRows(inp, "Entertainment") > 8
    THEN << Tip("Entertainment", "Use free entertainment options", "easy") >> ELSE << >>

\* the last five tips
LastFive(tips) == SubSeq(tips, IF Len(tips) > 5 THEN Len(tips) - 4 ELSE 1, Len(tips))
\* line 284: tips[:5]
FirstFive(tips) == SubSeq(tips, 1, IF Len(tips) > 5 THEN 5 ELSE Len(tips))

\* lines 201-284: no rows give a frame without columns (KeyError at line 205)
get_personalized_tips(inp) ==
    IF LedgerLen(inp) = 0 THEN Raised("KeyError")
    ELSE Value(FirstFive(MealPlanning(inp) \o PaymentMethod(inp) \o BulkBuying(inp)
                           \o AutomatedSavings(inp) \o PriceComparison(inp)
                           \o EnergyEfficiency(inp) \o TransportOptimization(inp)
                           \o EntertainmentAlternatives(inp)))

(***************************************************************************)
(* analyze_spending_patterns (insights.py:19-55), identify_spending_trends *)
(* (insights.py:369-413), get_spending_insights (insights.py:462-469) and  *)
(* the route get_insights (ml_routes.py:251-292)                           *)
(***************************************************************************)
PresentCategories(inp) ==
    {LedgerCategories[i] : i \in {j \in DOMAIN LedgerCategories :
                                      CategoryRows(inp, LedgerCategories[j]) > 0}}
\* lines 23-55: pd.to_datetime reads datetimes and ISO strings alike
analyze_spending_patterns(inp) ==
    IF LedgerLen(inp) = 0 THEN Raised("KeyError")
    ELSE Value([ payment_distribution |->
                     [ Cash |-> CountWhere(inp, LAMBDA r : r.payment_type = "Cash"),
                       Card |-> CountWhere(inp, LAMBDA r : r.payment_type = "Card") ],
                 category_breakdown |->
                     [ c \in PresentCategories(inp) |->
                         [ total |-> 100 * CategoryTotal(inp, c),
                           count |-> CategoryRows(inp, c),
                           average |-> RoundHalfEven(100 * CategoryTotal(inp, c),
                                                     CategoryRows(inp, c)) ] ] ])
\* lines 373-413: all rows are in one month, so no category has the two
\* months a trend needs
identify_spending_trends(inp) ==
    IF LedgerLen(inp) = 0 THEN Raised("KeyError")
    ELSE Value([ monthly_spending |-> << 100 * AmountWhere(inp, AnyRow) >>,
                 increasing_categories |-> << >>,
                 decreasing_categories |-> << >>,
                 stable_categories |-> << >> ])

IsRaised(r) == "raised" \in DOMAIN r
\* lines 464-469: the dict is built entry by entry; an exception in one
\* entry leaves get_spending_insights
get_spending_insights(inp) ==
    IF IsRaised(analyze_spending_patterns(inp)) THEN analyze_spending_patterns(inp)
    ELSE IF IsRaised(generate_saving_opportunities(inp))
    THEN generate_saving_opportunities(inp)
    ELSE IF IsRaised(get_personalized_tips(inp)) THEN get_personalized_tips(inp)
    ELSE IF IsRaised(identify_spending_trends(inp)) THEN identify_spending_trends(inp)
    ELSE Value([ patterns |-> analyze_spending_patterns(inp).value,
                 opportunities |-> generate_saving_opportunities(inp).value,
                 tips |-> get_personalized_tips(inp).value,
                 trends |-> identify_spending_trends(inp).value ])

\* ml_routes.py:261-292
get_insights(inp) ==
    IF ~inp.fetched
    THEN [success |-> FALSE, error |-> "Failed to get expenses", status |-> 400]
    ELSE IF LedgerLen(inp) < 10
    THEN [ success |-> FALSE, error |-> "Insufficient data for insights",
           current_count |-> LedgerLen(inp), required_count |-> 10, status |-> 400 ]
    ELSE IF IsRaised(get_spending_insights(inp))
    THEN [success |-> FALSE, error |-> "Insights generation failed", status |-> 500]
    ELSE WithStatus(get_spending_insights(inp).value, 200)

\* the calls: the functions are given any ledger, the route the user's
\* expenses as Expense.to_dict returns them
InsightInputs ==
    { [op |-> o, dates |-> d, rows |-> rs] :
        o \in {"generate_saving_opportunities", "get_personalized_tips",
               "get_spending_insights"},
        d \in DateKinds, rs \in LedgerRows }
    \cup
    { [op |-> "generate_budget_recommendations", dates |-> d, rows |-> rs,
       has_income |-> h, income |-> i] :
        d \in DateKinds, rs \in LedgerRows, h \in BOOLEAN, i \in Incomes }
    \cup
    { [op |-> "get_insights", dates |-> "string", rows |-> rs, fetched |-> f] :
        rs \in LedgerRows, f \in BOOLEAN }

InitInsights ==
    /\ call \in InsightInputs
    /\ results = << >>
    /\ now = 0
    /\ DetectorAtRest
    /\ ForecasterAtRest
    /\ BandAtRest
    /\ ModelsAtRest

generate_saving_opportunities_call ==
    /\ call.op = "generate_saving_opportunities"
    /\ results = << >>
    /\ results' = << generate_saving_opportunities(call) >>
    /\ UNCHANGED << now, call, avars, notCall >>

generate_budget_recommendations_call ==
    /\ call.op = "generate_budget_recommendations"
    /\ results = << >>
    /\ \E ties \in Ties : results' = << generate_budget_recommendations(call, ties) >>
    /\ UNCHANGED << now, call, avars, notCall >>

get_personalized_tips_call ==
    /\ call.op = "get_personalized_tips"
    /\ results = << >>
    /\ results' = << get_personalized_tips(call) >>
    /\ UNCHANGED << now, call, avars, notCall >>

get_spending_insights_call ==
    /\ call.op = "get_spending_insights"
    /\ results = << >>
    /\ results' = << get_spending_insights(call) >>
    /\ UNCHANGED << now, call, avars, notCall >>

get_insights_call ==
    /\ call.op = "get_insights"
    /\ results = << >>
    /\ results' = << get_insights(call) >>
    /\ UNCHANGED << now, call, avars, notCall >>

NextInsights ==
    \/ generate_saving_opportunities_call
    \/ generate_budget_recommendations_call
    \/ get_personalized_tips_call
    \/ get_spending_insights_call
    \/ get_insights_call

SpecInsights == InitInsights /\ [][NextInsights]_vars

Returned1 == results # << >> /\ ~IsRaised(results[1])
OrDefault(r) == IF IsRaised(r) THEN << >> ELSE r.value

\* C16: when one of the four parts of the insights bundle fails, the bundle
\* is still returned, with the other parts computed and the failed part
\* empty; the route then answers 200.
C16_BundleSurvives ==
    /\ call.op = "get_spending_insights" /\ LedgerLen(call) > 0 =>
           \A i \in DOMAIN results :
               /\ ~IsRaised(results[i])
               /\ results[i].value.patterns = OrDefault(analyze_spending_patterns(call))
               /\ results[i].value.opportunities = OrDefault(generate_saving_opportunities(call))
               /\ results[i].value.tips = OrDefault(get_personalized_tips(call))
               /\ results[i].value.trends = OrDefault(identify_spending_trends(call))
    /\ call.op = "get_insights" /\ call.fetched /\ LedgerLen(call) >= 10 =>
           \A i \in DOMAIN results : results[i].status = 200

OfType(os, t) == {i \in DOMAIN os : os[i].type = t}
OfTypeAndCategory(os, t, c) == {i \in DOMAIN os : os[i].type = t /\ os[i].category = c}
OpportunityTypes ==
    {"frequent_small_purchases", "subscription_review", "weekend_spending",
     "category_overweight"}

\* C17 (as stated): the opportunities returned hold at most one suggestion
\* of each of the four types, and at most four suggestions.
C17_OnePerRule ==
    call.op = "generate_saving_opportunities" /\ Returned1 =>
        /\ \A t \in OpportunityTypes : Cardinality(OfType(results[1].value, t)) <= 1
        /\ Len(results[1].value) <= 4

\* C17 (amended): the opportunities returned hold at most one suggestion of
\* each of the types subscription_review, weekend_spending and
\* category_overweight, and at most one frequent_small_purchases suggestion
\* for each category of the records.
C17_OnePerRuleOrCategory ==
    call.op = "generate_saving_opportunities" /\ Returned1 =>
        /\ \A t \in OpportunityTypes \ {"frequent_small_purchases"} :
               Cardinality(OfType(results[1].value, t)) <= 1
        /\ \A i \in DOMAIN LedgerCategories :
               Cardinality(OfTypeAndCategory(results[1].value, "frequent_small_purchases",
                                             LedgerCategories[i])) <= 1
        /\ \A i \in OfType(results[1].value, "frequent_small_purchases") :
               results[1].value[i].category \in PresentCategories(call)
        /\ Len(results[1].value) <= 3 + Cardinality(PresentCategories(call))

\* three categories of frequent small purchases, and the three other rules
C17_Witness ==
    /\ call.op = "generate_saving_opportunities"
    /\ Returned1
    /\ Cardinality(OfType(results[1].value, "frequent_small_purchases")) = 3
    /\ Len(results[1].value) = 6

NeedsEntries(adjustments) == {i \in DOMAIN adjustments : adjustments[i].category = "Needs"}
\* twice needs_total - 0.5 * income, in cents
TwiceNeedsExcess(inp) == 2 * 100 * needs_total(inp) - inp.income

\* C18 (as stated): with an income supplied there is a Needs entry exactly
\* when the needs total is above half the income, and the entry's reduction
\* is exactly needs_total - 0.5 * income.
C18_NeedsExact ==
    call.op = "generate_budget_recommendations" /\ call.has_income /\ Returned1 =>
        LET adjustments == results[1].value.adjustments_needed
        IN  /\ Cardinality(NeedsEntries(adjustments)) =
                   (IF TwiceNeedsExcess(call) > 0 THEN 1 ELSE 0)
            /\ \A i \in NeedsEntries(adjustments) :
                   2 * adjustments[i].message.reduce_by = TwiceNeedsExcess(call)

\* C18 (amended): with an income other than 0 supplied there is a Needs
\* entry exactly when the needs total is above half the income, and the
\* entry's message names needs_total - 0.5 * income rounded to a whole cent
\* (income 1000 and needs 600: 100.00); an income of 0 gives no adjustments.
C18_NeedsToTheCent ==
    call.op = "generate_budget_recommendations" /\ call.has_income /\ Returned1 =>
        LET adjustments == results[1].value.adjustments_needed
        IN  /\ call.income # 0 =>
                /\ Cardinality(NeedsEntries(adjustments)) =
                       (IF TwiceNeedsExcess(call) > 0 THEN 1 ELSE 0)
                /\ \A i \in NeedsEntries(adjustments) :
                       /\ 2 * adjustments[i].message.reduce_by - TwiceNeedsExcess(call)
                              \in {0 - 1, 0, 1}
                       /\ adjustments[i].priority = "high"
            /\ call.income = 0 => adjustments = << >>
            /\ (call.income = 100000 /\ needs_total(call) = 600) =>
                   \E i \in NeedsEntries(adjustments) :
                       adjustments[i].message.reduce_by = 10000

\* the reduction is not a whole number of cents
C18_Witness ==
    /\ call.op = "generate_budget_recommendations"
    /\ call.has_income
    /\ call.income = 100001
    /\ needs_total(call) = 600
    /\ Returned1
    /\ \E i \in NeedsEntries(results[1].value.adjustments_needed) :
           results[1].value.adjustments_needed[i].message.reduce_by = 10000

\* the tip of rule r, if the rule triggers
RuleTips(inp, r) ==
    CASE r = 1 -> MealPlanning(inp)
      [] r = 2 -> PaymentMethod(inp)
      [] r = 3 -> BulkBuying(inp)
      [] r = 4 -> AutomatedSavings(inp)
      [] r = 5 -> PriceComparison(inp)
      [] r = 6 -> EnergyEfficiency(inp)
      [] r = 7 -> TransportOptimization(inp)
      [] r = 8 -> EntertainmentAlternatives(inp)
Triggered(inp) == {r \in 1..8 : RuleTips(inp, r) # << >>}
\* the i-th triggered rule in the order 1..8
NthTriggered(inp, i) ==
    CHOOSE r \in Triggered(inp) : Cardinality({q \in Triggered(inp) : q < r}) = i - 1

HealthInputsFor(ops, dateKinds) ==
    { [op |-> o, dates |-> d, days |-> n, low |-> a, high |-> b, one_category |-> c,
       has_income |-> hi, income |-> i, has_savings |-> hs, savings |-> sv, fetched |-> f] :
        o \in ops, d \in dateKinds, n \in {0, 1, 4, 9, 16}, a \in {1, 10}, b \in {10, 20, 500},
        c \in BOOLEAN, hi \in BOOLEAN, i \in {0 - 1000, 0, 50, 700, 1000},
        hs \in BOOLEAN, sv \in {0 - 100, 0, 50, 2000}, f \in BOOLEAN }

\* round(x, 2) of x = num / den, den not 0
RoundRatio(num, den) ==
    IF den < 0
    THEN (IF num <= 0 THEN RoundHalfEven(0 - num, 0 - den)
                      ELSE 0 - RoundHalfEven(num, 0 - den))
    ELSE (IF num >= 0 THEN RoundHalfEven(num, den) ELSE 0 - RoundHalfEven(0 - num, den))
Max0(x) == IF x > 0 THEN x ELSE 0

\* df['amount'].sum()
HealthTotal(inp) == (inp.days - 1) * inp.low + inp.high
DaysRoot(inp) == CHOOSE r \in 1..inp.days : r * r = inp.days
Gap(inp) == IF inp.high >= inp.low THEN inp.high - inp.low ELSE inp.low - inp.high

\* lines 296-302: cv is std / mean = DaysRoot * Gap / HealthTotal; with one
\* day std is NaN, and max(0, NaN) is 0
spending_consistency(inp) ==
    IF inp.days = 1 THEN 0
    ELSE Max0(RoundRatio(2500 * HealthTotal(inp) - 1000 * DaysRoot(inp) * Gap(inp),
                         HealthTotal(inp)))
\* lines 304-310
budget_adherence(inp) ==
    IF inp.has_income /\ inp.income # 0
    THEN Max0(RoundRatio(2500 * inp.income - 2000 * HealthTotal(inp), inp.income))
    ELSE 1500
\* lines 312-318
savings_rate(inp) ==
    IF inp.has_income /\ inp.income # 0 /\ inp.has_savings /\ inp.savings # 0
    THEN (IF RoundRatio(10000 * inp.savings, inp.income) > 3000
          THEN 3000 ELSE RoundRatio(10000 * inp.savings, inp.income))
    ELSE 1000
\* lines 320-328
MaxCategoryTotal(inp) ==
    IF inp.one_category THEN HealthTotal(inp)
    ELSE IF (inp.days - 1) * inp.low > inp.high THEN (inp.days - 1) * inp.low ELSE inp.high
\* line 325 without max(0, ...)
expense_diversity_unclamped(inp) ==
    RoundRatio(2000 * HealthTotal(inp) - 3000 * MaxCategoryTotal(inp), HealthTotal(inp))
expense_diversity(inp) ==
    Max0(RoundRatio(2000 * HealthTotal(inp) - 3000 * MaxCategoryTotal(inp), HealthTotal(inp)))

\* line 330
SumOfScores(inp) ==
    spending_consistency(inp) + budget_adherence(inp) + savings_rate(inp)
        + expense_diversity(inp)
\* lines 332-344
health_level(total) ==
    IF total >= 8000 THEN "Excellent"
    ELSE IF total >= 6000 THEN "Good"
    ELSE IF total >= 4000 THEN "Fair"
    ELSE "Needs Improvement"
\* lines 354-367
get_score_recommendations(inp) ==
    (IF spending_consistency(inp) < 1500
     THEN << "Work on maintaining consistent daily spending" >> ELSE << >>)
    \o (IF budget_adherence(inp) < 1500
        THEN << "Reduce overall expenses to improve budget adherence" >> ELSE << >>)
    \o (IF savings_rate(inp) < 1500
        THEN << "Increase your monthly savings rate" >> ELSE << >>)
    \o (IF expense_diversity(inp) < 1000
        THEN << "Balance spending across different categories" >> ELSE << >>)

\* lines 291-352: no records give a frame without a 'date' column (KeyError
\* at line 296); string dates have no .dt accessor (AttributeError at line
\* 296).  "up" says where round(total_score, 1) takes a binary float that
\* lies half-way between two tenths.
calculate_financial_health_score(inp, up) ==
    IF inp.days = 0 THEN Raised("KeyError")
    ELSE IF inp.dates = "string" THEN Raised("AttributeError")
    ELSE Value([ total_score |-> ToCents(SumOfScores(inp), 10, up),
                 health_level |-> health_level(SumOfScores(inp)),
                 components |->
                     [ spending_consistency |-> spending_consistency(inp),
                       budget_adherence |-> budget_adherence(inp),
                       savings_rate |-> savings_rate(inp),
                       expense_diversity |-> expense_diversity(inp) ],
                 recommendations |-> get_score_recommendations(inp) ])

\* ml_routes.py:389-434
get_financial_health(inp, up) ==
    IF inp.has_income /\ inp.income < 0
    THEN [success |-> FALSE, error |-> "Income cannot be negative", status |-> 400]
    ELSE IF inp.has_savings /\ inp.savings < 0
    THEN [success |-> FALSE, error |-> "Savings cannot be negative", status |-> 400]
    ELSE IF ~inp.fetched
    THEN [success |-> FALSE, error |-> "Failed to get expenses", status |-> 400]
    ELSE IF inp.days = 0
    THEN [ success |-> FALSE, error |-> "Insufficient data",
           current_count |-> 0, required_count |-> 10, status |-> 400 ]
    ELSE IF IsRaised(calculate_financial_health_score(inp, up))
    THEN [success |-> FALSE, error |-> "Health score calculation failed", status |-> 500]
    ELSE WithStatus(calculate_financial_health_score(inp, up).value, 200)

InitHealth ==
    /\ call \in HealthInputsFor({"calculate_financial_health_score"}, DateKinds)
                 \cup HealthInputsFor({"get_financial_health"}, {"string"})
    /\ results = << >>
    /\ now = 0
    /\ DetectorAtRest
    /\ ForecasterAtRest
    /\ BandAtRest
    /\ ModelsAtRest

calculate_financial_health_score_call ==
    /\ call.op = "calculate_financial_health_score"
    /\ results = << >>
    /\ \E up \in BOOLEAN : results' = << calculate_financial_health_score(call, up) >>
    /\ UNCHANGED << now, call, avars, notCall >>

get_financial_health_call ==
    /\ call.op = "get_financial_health"
    /\ results = << >>
    /\ \E up \in BOOLEAN : results' = << get_financial_health(call, up) >>
    /\ UNCHANGED << now, call, avars, notCall >>

NextHealth == calculate_financial_health_score_call \/ get_financial_health_call

SpecHealth == InitHealth /\ [][NextHealth]_vars

InRange(x, top) == 0 <= x /\ x <= top
ScoresInRange(report) ==
    /\ InRange(report.components.spending_consistency, 2500)
    /\ InRange(report.components.budget_adherence, 2500)
    /\ InRange(report.components.savings_rate, 3000)
    /\ InRange(report.components.expense_diversity, 2000)
    /\ InRange(report.total_score, 1000)
Admitted(inp) ==
    /\ inp.has_income => inp.income >= 0
    /\ inp.has_savings => inp.savings >= 0

TierOf(tenths) ==
    IF tenths >= 800 THEN "Excellent"
    ELSE IF tenths >= 600 THEN "Good"
    ELSE IF tenths >= 400 THEN "Fair"
    ELSE "Needs Improvement"

\* C21: in every health score report, health_level is the tier of the
\* total_score the report returns: 'Excellent' from 80, 'Good' from 60,
\* 'Fair' from 40, 'Needs Improvement' below 40.
C21_TierOfReportedTotal ==
    call.op = "calculate_financial_health_score" /\ Returned1 =>
        results[1].value.health_level = TierOf(results[1].value.total_score)

HasRecommendation(report, text) ==
    \E i \in DOMAIN report.recommendations : report.recommendations[i] = text

\* C22: the report's recommendations hold the recommendation for a sub-score
\* exactly when that sub-score is below half of its maximum: 12.5 for
\* spending_consistency and budget_adherence, 15 for savings_rate, 10 for
\* expense_diversity.
C22_BelowHalfCredit ==
    call.op = "calculate_financial_health_score" /\ Returned1 =>
        LET report == results[1].value
        IN  /\ HasRecommendation(report, "Work on maintaining consistent daily spending")
                   <=> report.components.spending_consistency < 1250
            /\ HasRecommendation(report, "Reduce overall expenses to improve budget adherence")
                   <=> report.components.budget_adherence < 1250
            /\ HasRecommendation(report, "Increase your monthly savings rate")
                   <=> report.components.savings_rate < 1500
            /\ HasRecommendation(report, "Balance spending across different categories")
                   <=> report.components.expense_diversity < 1000

\* a request that was not refused for its parameters or for a failed fetch
\* and whose user has too little history for it
TooLittleHistory ==
    /\ pr.pc = "returned"
    /\ pr.via = "route"
    /\ pr.response \notin {FetchFailed, InvalidDays}
    /\ \/ pr.op = "get_forecast" /\ NumRows(pr.recs) < RouteRequiredCount
       \/ pr.op = "get_category_forecast_route"
            /\ CategoryCount(pr.recs, pr.category) < MinCategoryRecords

\* C23: a forecast or category forecast request of a user with too little
\* history is answered with a structured response that carries the current
\* and the required record counts, never with a 500.
C23_TooLittleHistoryIsStructured ==
    TooLittleHistory =>
        /\ pr.response.status # 500
        /\ "current_count" \in DOMAIN pr.response
        /\ "required_count" \in DOMAIN pr.response

(***************************************************************************)
(* Expense.update  (models/expense_model.py:92-108).  A value is a record  *)
(* named after its Python type; datetimes are clock readings.              *)
(***************************************************************************)
None == [none |-> TRUE]
PyStr(x) == [str |-> x]
PyInt(n) == [int |-> n]
PyFloat(n) == [float |-> n]
IsoString(t) == [iso |-> t]
DateTime(t) == [datetime |-> t]
ObjectId(n) == [oid |-> n]
List(xs) == [list |-> xs]

\* expense_model.py:25-37: the object of the test (test_expense_logic.py:25-31)
NewExpense(t) ==
    [ _id |-> ObjectId(1), user_id |-> ObjectId(2), amount |-> PyFloat(10),
      category |-> PyStr("Transport"), payment_type |-> PyStr("Cash"),
      date |-> DateTime(t), notes |-> PyStr("initial"), tags |-> List(<< >>),
      receipt_url |-> None, created_at |-> DateTime(t), updated_at |-> DateTime(t) ]

\* the keyword arguments of a call: the values a caller passes for a key
KwargValues(key) ==
    CASE key = "amount" -> {None, PyInt(25)}
      [] key = "category" -> {PyStr("Food")}
      [] key = "payment_type" -> {PyStr("UPI")}
      [] key = "date" -> {IsoString(2), DateTime(3)}
      [] key = "notes" -> {None, PyStr("updated note")}
      [] key = "tags" -> {List(<< "work" >>)}
      [] key = "receipt_url" -> {PyStr("https://r/1")}
      [] key \in {"user_id", "_id"} -> {ObjectId(9)}
      [] key \in {"created_at", "updated_at"} -> {DateTime(5)}
      [] key = "status" -> {PyStr("deleted")}
KwargKeys ==
    {"amount", "category", "payment_type", "date", "notes", "tags", "receipt_url",
     "user_id", "_id", "created_at", "updated_at", "status"}
KwargKeySets ==
    {{k} : k \in KwargKeys}
    \cup {{"amount", "notes"}, {"date", "user_id"}, {"_id", "created_at", "amount"},
          {"category", "payment_type", "tags", "receipt_url"}}
UpdateKwargs ==
    UNION { {kw \in [keys -> UNION {KwargValues(k) : k \in keys}] :
                \A k \in keys : kw[k] \in KwargValues(k)} : keys \in KwargKeySets }

\* the list with user_id in it
allowed_fields_and_owner ==
    {"amount", "category", "payment_type", "date", "notes", "tags", "receipt_url", "user_id"}
\* lines 94-97
allowed_fields ==
    {"amount", "category", "payment_type", "date", "notes", "tags", "receipt_url"}
\* lines 101-106: float(value), datetime.fromisoformat(value), or the value
SetValue(key, value) ==
    IF key = "amount" /\ "int" \in DOMAIN value THEN PyFloat(value.int)
    ELSE IF key = "date" /\ "iso" \in DOMAIN value THEN DateTime(value.iso)
    ELSE value
\* lines 99-108
Updated(e, kwargs, t) ==
    [ f \in DOMAIN e |->
        IF f = "updated_at" THEN DateTime(t)
        ELSE IF f \in DOMAIN kwargs /\ f \in allowed_fields /\ kwargs[f] # None
        THEN SetValue(f, kwargs[f])
        ELSE e[f] ]

InitExpense ==
    /\ expense = NewExpense(0)
    /\ now = 0
    /\ call = NoCall
    /\ results = << >>
    /\ ForecasterAtRest
    /\ BandAtRest
    /\ DetectorAtRest
    /\ GoalAtRest
    /\ AlertsAtRest

update(kwargs) ==
    /\ expense # NoDocument
    /\ expense' = Updated(expense, kwargs, now)
    /\ call' = [op |-> "Expense.update", kwargs |-> kwargs]
    /\ UNCHANGED << now, results, avars, fvars, bvars, notExpense >>

NextExpense ==
    \/ \E kwargs \in UpdateKwargs : update(kwargs)
    \/ Tick

SpecExpense == InitExpense /\ [][NextExpense]_vars

\* what the claim says a field holds after update(**kwargs) at time t
Named(kwargs) ==
    {f \in DOMAIN kwargs \cap
           {"amount", "category", "payment_type", "date", "notes", "tags", "receipt_url"} :
        kwargs[f] # None}
StoredAs(f, value) ==
    IF f = "amount" /\ "int" \in DOMAIN value THEN PyFloat(value.int)
    ELSE IF f = "date" /\ "iso" \in DOMAIN value THEN DateTime(value.iso)
    ELSE value
UpdateStep == call'.op = "Expense.update" /\ << expense, call >>' # << expense, call >>

\* C24: an update changes exactly the fields named in kwargs that are among
\* the seven updatable fields and whose value is not None (amount stored as
\* a float, an ISO date string as a datetime), sets updated_at to the time
\* of the call and leaves every other field as it was, in every sequence of
\* updates.
C24_UpdateChangesNamedFields ==
    [][ UpdateStep =>
            /\ DOMAIN expense' = DOMAIN expense
            /\ \A f \in Named(call'.kwargs) : expense'[f] = StoredAs(f, call'.kwargs[f])
            /\ expense'.updated_at = DateTime(now)
            /\ \A f \in DOMAIN expense \ (Named(call'.kwargs) \cup {"updated_at"}) :
                   expense'[f] = expense[f] ]_vars

\* fields were changed by updates, the last of them an update, after the
\* clock moved, that named the date as an ISO string and also the owner;
\* the owner is that of the construction
C24_Witness ==
    /\ call.op = "Expense.update"
    /\ DOMAIN call.kwargs = {"date", "user_id"}
    /\ expense.amount = PyFloat(25)
    /\ expense.date = DateTime(2)
    /\ expense.notes = PyStr("updated note")
    /\ expense.updated_at = DateTime(3)
    /\ expense.user_id = ObjectId(2)

(***************************************************************************)
(* The forecaster's state across its calls (forecasting.py).               *)
(***************************************************************************)
TrainedModel == << model, label_encoders, feature_names, artifact >>
\* a step in which a train_model call returns at the guard
RejectedTrainStep ==
    /\ tr.pc = "idle"
    /\ tr'.pc = "returned"
    /\ tr'.result = TrainTooFew

\* C25: a train_model call rejected for fewer than 30 records leaves the
\* model, the encoders, the feature-column list and the artifact as they
\* were; a triple that was usable before the call is usable after it.
C25_RejectedTrainChangesNothing ==
    [][ RejectedTrainStep =>
            /\ TrainedModel' = TrainedModel
            /\ CompleteTriple => CompleteTriple' ]_vars

\* a call with between 1 and 29 records was rejected while a usable triple
\* made by an earlier train_model call was in memory and on disk
C25_Witness ==
    /\ tr.pc = "returned"
    /\ tr.result = TrainTooFew
    /\ NumRows(tr.recs) \in 1..29
    /\ CompleteTriple
    /\ model.by # OnDisk
    /\ artifact = Dumped

\* the regressor is fitted, the column list is set, both encoders exist
UsableModel ==
    /\ model.state = "fitted"
    /\ feature_names.cols = feature_cols
    /\ \A col \in DOMAIN label_encoders : label_encoders[col].state # "absent"

\* C26: between calls, however the calls before ended, a model slot that is
\* not empty holds a usable model; predict_next_month, given records, does not
\* fail on an unfitted regressor or on a missing column list.
C26_NonEmptySlotIsUsable ==
    /\ (model # NoModel /\ ~TrainRunning) => UsableModel
    /\ (PredictReturnedFrom("predict_next_month") /\ NumRows(pr.recs) > 0 /\ ~TrainRunning)
          => pr.result \notin {Raised("NotFittedError"), Raised("AttributeError"),
                               Raised("KeyError")}

\* a step of a predict_next_month or predict_category_spending call, up to
\* and including its return
PredictStep ==
    /\ pr' # pr
    /\ pr'.op \in {"predict_next_month", "predict_category"}
    /\ pr'.via = "direct" \/ pr'.op = "predict_next_month"

\* C27: no step of predict_next_month or predict_category_spending, however
\* the call ends, changes the model, the encoders, the feature-column list
\* or the artifact.
C27_PredictIsReadOnly ==
    [][ PredictStep => TrainedModel' = TrainedModel ]_vars

\* predict_next_month got past its model check and raised on a label the
\* encoders had not seen, next to a usable triple that is also on disk
C27_Witness ==
    /\ PredictReturnedFrom("predict_next_month")
    /\ pr.result = Raised("ValueError")
    /\ UnseenLabel(pr.recs)
    /\ CompleteTriple
    /\ artifact = Dumped

(***************************************************************************)
(* detect_budget_overrun: the days left in the month                       *)
(* (anomaly_detection.py:153-173).                                         *)
(***************************************************************************)
\* C28: for a record list that is not empty and a budget above zero, the
\* status reports days_remaining between 0 and 29, whatever the day of the
\* month (1 to 31) of the latest record is.
C28_DaysRemainingInRange ==
    BudgetAnswered /\ call.expenses # << >> =>
        \A i \in DOMAIN results : results[i].days_remaining \in 0..29

(***************************************************************************)
(* SavingsGoal  (models/savings_model.py).  Amounts are whole units; the   *)
(* fields that no method reads (title, description, priority, deadline)    *)
(* are left out.                                                           *)
(***************************************************************************)
MaxSaved == 300
STATUS_OPTIONS == {"active", "completed", "paused", "cancelled"}
\* savings_model.py:17-33: a goal that starts active with less saved than the target
NewGoals(t) ==
    { [ target_amount |-> tg, saved_amount |-> sv, status |-> "active",
        updated_at |-> DateTime(t), completed_at |-> None ] :
        tg \in {100, 200}, sv \in {0, 50} }
\* the amounts savings_service.py lets through validate_amount (lines 254, 316)
TransactionAmounts == {50, 100}
\* the keyword arguments of update; None also stands for a key that is not
\* passed (line 130 treats the two alike)
GoalKwargs ==
    [ target_amount : {None, PyInt(100), PyInt(200)},
      saved_amount : {None, PyInt(0), PyInt(50), PyInt(200)},
      status : {None} \cup {PyStr(st) : st \in STATUS_OPTIONS} ]

\* lines 102-105 and 140-143
CompletedWhenReached(g, t) ==
    IF g.saved_amount >= g.target_amount /\ g.status = "active"
    THEN [g EXCEPT !.status = "completed", !.completed_at = DateTime(t)]
    ELSE g
\* lines 117-120
ReactivatedWhenShort(g) ==
    IF g.status = "completed" /\ g.saved_amount < g.target_amount
    THEN [g EXCEPT !.status = "active", !.completed_at = None]
    ELSE g
\* lines 129-136 for the fields kept here
GoalFieldsSet(g, kwargs) ==
    [ g EXCEPT
        !.target_amount = IF kwargs.target_amount # None THEN kwargs.target_amount.int ELSE @,
        !.saved_amount = IF kwargs.saved_amount # None THEN kwargs.saved_amount.int ELSE @,
        !.status = IF kwargs.status # None THEN kwargs.status.str ELSE @ ]

InitGoal ==
    /\ now = 0
    /\ goal \in NewGoals(0)
    /\ call = NoCall
    /\ results = << >>
    /\ ForecasterAtRest
    /\ BandAtRest
    /\ DetectorAtRest
    /\ ExpenseAtRest
    /\ AlertsAtRest

\* lines 97-107
add_savings(amount) ==
    /\ goal # NoDocument
    /\ goal.saved_amount + amount <= MaxSaved
    /\ goal' = CompletedWhenReached(
                   [goal EXCEPT !.saved_amount = @ + amount, !.updated_at = DateTime(now)], now)
    /\ call' = [op |-> "add_savings", amount |-> amount]
    /\ results' = << Value(goal'.saved_amount) >>
    /\ UNCHANGED << now, avars, fvars, bvars, notGoal >>

\* lines 109-122
withdraw_savings(amount) ==
    /\ goal # NoDocument
    /\ call' = [op |-> "withdraw_savings", amount |-> amount]
    /\ IF amount > goal.saved_amount
       THEN /\ results' = << Raised("ValueError") >>
            /\ UNCHANGED goal
       ELSE /\ goal' = ReactivatedWhenShort(
                           [goal EXCEPT !.saved_amount = @ - amount,
                                        !.updated_at = DateTime(now)])
            /\ results' = << Value(goal'.saved_amount) >>
    /\ UNCHANGED << now, avars, fvars, bvars, notGoal >>

\* lines 124-143
goal_update(kwargs) ==
    /\ goal # NoDocument
    /\ goal' = CompletedWhenReached(
                   [GoalFieldsSet(goal, kwargs) EXCEPT !.updated_at = DateTime(now)], now)
    /\ call' = [op |-> "update", kwargs |-> kwargs]
    /\ results' = << >>
    /\ UNCHANGED << now, avars, fvars, bvars, notGoal >>

NextGoal ==
    \/ \E amount \in TransactionAmounts : add_savings(amount)
    \/ \E amount \in TransactionAmounts : withdraw_savings(amount)
    \/ \E kwargs \in GoalKwargs : goal_update(kwargs)
    \/ Tick

SpecGoal == InitGoal /\ [][NextGoal]_vars

\* C29: whatever add_savings, withdraw_savings and update calls were made on
\* a goal that started active with less saved than its target, the goal is
\* completed only if the saved amount has reached the target.
C29_CompletedOnlyWhenReached ==
    goal.status = "completed" => goal.saved_amount >= goal.target_amount

(***************************************************************************)
(* AlertService.check_budget_alerts  (services/alert_service.py:308-385),  *)
(* one category of the loop per request, one request per thread.  The      *)
(* collection has no unique index (utils/db_connection.py:131-134).        *)
(***************************************************************************)
MaxAlerts == 2
RECURSIVE SumCounts(_, _)
SumCounts(f, S) ==
    IF S = {} THEN 0
    ELSE LET d == CHOOSE x \in S : TRUE IN f[d] + SumCounts(f, S \ {d})
\* what the aggregate of lines 330-347 found and the limit given for the category
SpendingAndLimit == { << 50, 100 >>, << 80, 100 >>, << 100, 0 >> }
\* lines 350-352: 80% or more of the budget is used
AlertNeeded(spending, limit) == limit > 0 /\ 100 * spending >= 80 * limit
\* lines 355-360: find_one on today's budget warnings of the user and category
existing_alert(user_id, category, today_start) ==
    \E d \in AlertDocs :
        /\ alerts[d] > 0
        /\ d.user_id = user_id
        /\ d.category = category
        /\ d.created_at >= today_start
\* lines 364-369, alert_model.py:87-103: the document that is inserted
create_budget_warning(user_id, category, t) ==
    [user_id |-> user_id, alert_type |-> "budget_warning", category |-> category,
     created_at |-> t]

InitAlerts ==
    /\ now = 0
    /\ call = NoCall
    /\ results = << >>
    /\ ForecasterAtRest
    /\ BandAtRest
    /\ DetectorAtRest
    /\ ExpenseAtRest
    /\ GoalAtRest
    /\ AlertsAtRest

\* lines 308-352: the request is entered and the spending is looked up
check_budget_alerts(t, user_id, category, spending, limit) ==
    /\ checker[t].pc = "idle"
    /\ SumCounts(alerts, AlertDocs) < MaxAlerts
    /\ checker' = [checker EXCEPT ![t] =
                      [pc |-> IF AlertNeeded(spending, limit) THEN "find_one" ELSE "returned",
                       user_id |-> user_id, category |-> category, created |-> 0]]
    /\ UNCHANGED << alerts, notAlerts, cvars, avars, fvars, bvars >>

\* lines 354-362
FindExisting(t) ==
    /\ checker[t].pc = "find_one"
    /\ checker' = [checker EXCEPT ![t].pc =
                      IF existing_alert(checker[t].user_id, checker[t].category, now)
                      THEN "returned" ELSE "insert_one"]
    /\ UNCHANGED << alerts, notAlerts, cvars, avars, fvars, bvars >>

\* lines 363-373
InsertAlert(t) ==
    /\ checker[t].pc = "insert_one"
    /\ alerts' = [alerts EXCEPT
                    ![create_budget_warning(checker[t].user_id, checker[t].category, now)] = @ + 1]
    /\ checker' = [checker EXCEPT ![t].pc = "returned", ![t].created = 1]
    /\ UNCHANGED << notAlerts, cvars, avars, fvars, bvars >>

\* lines 375-379: the request returns what it created
CheckerReturned(t) ==
    /\ checker[t].pc = "returned"
    /\ checker' = [checker EXCEPT ![t] = CheckerIdle]
    /\ UNCHANGED << alerts, notAlerts, cvars, avars, fvars, bvars >>

NextAlerts ==
    \/ \E t \in Threads, user_id \in AlertUsers, category \in AlertCategories,
          sl \in SpendingAndLimit : check_budget_alerts(t, user_id, category, sl[1], sl[2])
    \/ \E t \in Threads : FindExisting(t)
    \/ \E t \in Threads : InsertAlert(t)
    \/ \E t \in Threads : CheckerReturned(t)
    \/ Tick

SpecAlerts == InitAlerts /\ [][NextAlerts]_vars

\* C30: the collection never holds two budget warnings of the same user,
\* category and day, also when two requests for the same user and category
\* interleave between the lookup and the insert.
C30_OneWarningPerDay ==
    \A d \in AlertDocs : alerts[d] <= 1

=============================================================================
